---- MODULE Spec2Model ----
(***************************************************************************)
(* Failover decision engine of pi-high-availability                        *)
(* (src/extensions/index.ts, the credential-aware version, lines 887-1593).*)
(*                                                                         *)
(* Text is modelled as a sequence of lexemes: a word, a single digit, or a *)
(* single separator (" ", "/", ":", "-", "_").  Substring search, split    *)
(* and concatenation are computed on those sequences, so keys such as      *)
(* "p1:primary" and "p1/m1" are built and compared the way the code builds *)
(* and compares its strings.  null/undefined is the empty set and a        *)
(* present value x is the singleton {x}.                                    *)
(***************************************************************************)
EXTENDS Integers, Sequences, FiniteSets, TLC

None == {}
Some(x) == {x}
The(o) == CHOOSE x \in o : TRUE

(***************************************************************************)
(* Text helpers                                                            *)
(***************************************************************************)

\* String.prototype.includes / RegExp.test of a literal: pat occurs in s.
Contains(s, pat) ==
  \E i \in 0..(Len(s) - Len(pat)) : \A j \in 1..Len(pat) : s[i + j] = pat[j]

\* pat occurs in s starting at position i (1-based).
MatchAt(s, pat, i) ==
  /\ i >= 1
  /\ i + Len(pat) - 1 <= Len(s)
  /\ \A j \in 1..Len(pat) : s[i + j - 1] = pat[j]

LowerOf(tok) ==
  CASE tok = "No" -> "no"
    [] tok = "Retry" -> "retry"
    [] tok = "Insufficient" -> "insufficient"
    [] tok = "RATE" -> "rate"
    [] OTHER -> tok

\* String.prototype.toLowerCase
ToLowerCase(s) == [i \in DOMAIN s |-> LowerOf(s[i])]

Digits == {"0", "1", "2", "3", "4", "5", "6", "7", "8", "9"}

\* String.prototype.split(sep): the pieces of s between occurrences of sep.
RECURSIVE SplitFrom(_, _, _, _)
SplitFrom(s, sep, i, cur) ==
  IF i > Len(s) THEN <<cur>>
  ELSE IF s[i] = sep THEN <<cur>> \o SplitFrom(s, sep, i + 1, <<>>)
  ELSE SplitFrom(s, sep, i + 1, Append(cur, s[i]))

Split(s, sep) == SplitFrom(s, sep, 1, <<>>)

(***************************************************************************)
(* Error classification                                                    *)
(***************************************************************************)

DEFAULT_COOLDOWN_MS == 60 * 60 * 1000

\* /billing.*exhausted/ : "billing", then any run without a line break,
\* then "exhausted".
BillingExhausted(s) ==
  \E i \in 1..Len(s) : \E j \in (i + 1)..Len(s) :
    /\ s[i] = "billing"
    /\ s[j] = "exhausted"
    /\ \A k \in (i + 1)..(j - 1) : s[k] # "\n"

QUOTA_ERROR_PATTERNS(s) ==
  \/ Contains(s, <<"4", "2", "9">>)
  \/ Contains(s, <<"quota", " ", "exceeded">>)
  \/ Contains(s, <<"resource", " ", "exhausted">>)
  \/ Contains(s, <<"rate", " ", "limit">>)
  \/ Contains(s, <<"rate", "_", "limit">>)
  \/ Contains(s, <<"exceeded", "_", "current", "_", "quota">>)
  \/ Contains(s, <<"insufficient", " ", "quota">>)
  \/ BillingExhausted(s)

CAPACITY_ERROR_PATTERNS(s) ==
  \/ Contains(s, <<"capacity", " ", "constraints">>)
  \/ Contains(s, <<"engine", " ", "overloaded">>)
  \/ Contains(s, <<"no", " ", "capacity", " ", "available">>)
  \/ Contains(s, <<"server", " ", "overloaded">>)
  \/ Contains(s, <<"temporarily", " ", "unavailable">>)

\* the pattern with \d in place of \d+
GEMINI_FINAL_RETRY_PATTERN_OneDigit(s) ==
  \E i \in 1..Len(s) :
    /\ MatchAt(s, <<"retry", " ", "failed", " ", "after", " ">>, i)
    /\ i + 6 <= Len(s)
    /\ s[i + 6] \in Digits
    /\ MatchAt(s, <<" ", "attempts">>, i + 7)

\* /retry failed after \d+ attempts/
GEMINI_FINAL_RETRY_PATTERN(s) ==
  \E i \in 1..Len(s) : \E n \in 1..Len(s) :
    /\ MatchAt(s, <<"retry", " ", "failed", " ", "after", " ">>, i)
    /\ i + 6 + n - 1 <= Len(s)
    /\ \A k \in (i + 6)..(i + 6 + n - 1) : s[k] \in Digits
    /\ MatchAt(s, <<" ", "attempts">>, i + 6 + n)

\* errorMessage and provider are optional values (None when undefined).
isQuotaError(errorMessage) ==
  IF errorMessage = None \/ The(errorMessage) = <<>> THEN FALSE
  ELSE QUOTA_ERROR_PATTERNS(ToLowerCase(The(errorMessage)))

\* isCapacityError without the internal-retry case of the Gemini family
isCapacityErrorAnyProvider(errorMessage, provider) ==
  IF errorMessage = None \/ The(errorMessage) = <<>> THEN FALSE
  ELSE CAPACITY_ERROR_PATTERNS(ToLowerCase(The(errorMessage)))

isCapacityError(errorMessage, provider) ==
  IF errorMessage = None \/ The(errorMessage) = <<>> THEN FALSE
  ELSE LET lowerMsg == ToLowerCase(The(errorMessage))
           gemini == /\ provider # None
                     /\ \/ Contains(The(provider), <<"google">>)
                        \/ Contains(The(provider), <<"gemini">>)
       IN IF gemini /\ GEMINI_FINAL_RETRY_PATTERN(lowerMsg) THEN TRUE
          ELSE IF gemini /\ Contains(lowerMsg, <<"no", " ", "capacity", " ", "available">>)
               THEN FALSE
          ELSE CAPACITY_ERROR_PATTERNS(lowerMsg)

\* shouldTriggerFailover that takes every error text for failover-worthy
shouldTriggerFailoverOnAnyText(errorMessage, provider) ==
  errorMessage # None /\ The(errorMessage) # <<>>

shouldTriggerFailover(errorMessage, provider) ==
  isQuotaError(errorMessage) \/ isCapacityError(errorMessage, provider)

(***************************************************************************)
(* Names, models and configurations the engine is run on                   *)
(***************************************************************************)

P1 == <<"p1">>
P2 == <<"p2">>
GEM == <<"google", "-", "gemini", "-", "cli">>

PRIMARY == <<"primary">>
BACKUP1 == <<"backup", "-", "1">>
BACKUP2 == <<"backup", "-", "2">>

Model(p, id) == [provider |-> p, id |-> id]
M1 == Model(P1, <<"m1">>)
M1b == Model(P1, <<"m1b">>)
M2 == Model(P2, <<"m2">>)
G1 == Model(GEM, <<"g1">>)

\* ctx.modelRegistry.getAvailable(): the host's list of usable models.
AvailableModels == <<M1, M1b, M2, G1>>

Entry(id) == [id |-> id, cooldownMs |-> None]
\* an entry with its own cooldownMs
EntryWith(id, cooldownMs) == [id |-> id, cooldownMs |-> Some(cooldownMs)]

\* key of a credential: `${provider}:${name}`
CredKey(provider, name) == provider \o <<":">> \o name
\* key of an endpoint: `${model.provider}/${model.id}`
EndpointKey(m) == m.provider \o <<"/">> \o m.id

OAuth(r) == [type |-> "oauth", secret |-> r]
ApiKey(k) == [type |-> "api_key", secret |-> k]

EmptyMap == [x \in {} |-> {}]

\* ha.json as loadConfig() returns it, before the start-up sync.
CfgA ==
  [groups |-> [g \in {"ga", "gs"} |->
                 IF g = "ga" THEN <<Entry(P1), Entry(P2)>>
                 ELSE <<EntryWith(EndpointKey(M1), 30 * 60 * 1000)>>],
   defaultGroup |-> Some("ga"),
   defaultCooldownMs |-> None,
   credentials |-> None]

CfgB ==
  [groups |-> [g \in {"gb"} |-> <<Entry(EndpointKey(M1)), Entry(EndpointKey(M2))>>],
   defaultGroup |-> Some("gb"),
   defaultCooldownMs |-> Some(1),
   credentials |-> Some([p \in {P1} |-> << [name |-> PRIMARY, cred |-> OAuth("r1")] >>])]

\* auth.json as found at start-up.
NoAuth == EmptyMap
AuthP1(cred) == [p \in {P1} |-> cred]

\* (ha.json, auth.json) pairs the extension is started on
Startups ==
  { [loaded |-> None, auth |-> NoAuth],
    [loaded |-> Some(CfgA), auth |-> NoAuth],
    [loaded |-> Some(CfgB), auth |-> AuthP1(OAuth("r2"))] }

(***************************************************************************)
(* Exhaustion registry (state.exhausted)                                   *)
(***************************************************************************)

MapPut(f, k, v) == [x \in DOMAIN f \cup {k} |-> IF x = k THEN v ELSE f[x]]
MapDel(f, k) == [x \in DOMAIN f \ {k} |-> f[x]]

\* isExhausted with the expiry comparison inverted
isExhaustedInverted(reg, entryId, t) ==
  IF entryId \notin DOMAIN reg THEN [result |-> FALSE, reg |-> reg]
  ELSE IF t - reg[entryId].exhaustedAt < reg[entryId].cooldownMs
       THEN [result |-> FALSE, reg |-> MapDel(reg, entryId)]
       ELSE [result |-> TRUE, reg |-> reg]

\* isExhausted with > in place of >=
isExhaustedOffByOne(reg, entryId, t) ==
  IF entryId \notin DOMAIN reg THEN [result |-> FALSE, reg |-> reg]
  ELSE IF t - reg[entryId].exhaustedAt > reg[entryId].cooldownMs
       THEN [result |-> FALSE, reg |-> MapDel(reg, entryId)]
       ELSE [result |-> TRUE, reg |-> reg]

\* isExhausted: the answer, and the registry after the lazy delete.
isExhausted(reg, entryId, t) ==
  IF entryId \notin DOMAIN reg THEN [result |-> FALSE, reg |-> reg]
  ELSE IF t - reg[entryId].exhaustedAt >= reg[entryId].cooldownMs
       THEN [result |-> FALSE, reg |-> MapDel(reg, entryId)]
       ELSE [result |-> TRUE, reg |-> reg]

\* markExhausted that falls back to the default for a falsy cooldown
markExhaustedOrDefault(reg, entryId, cooldownMs, t) ==
  MapPut(reg, entryId,
         [id |-> entryId, exhaustedAt |-> t,
          cooldownMs |-> IF cooldownMs = 0 THEN DEFAULT_COOLDOWN_MS ELSE cooldownMs])

\* markExhausted that extends an entry it finds instead of replacing it
markExhaustedExtending(reg, entryId, cooldownMs, t) ==
  IF entryId \in DOMAIN reg
  THEN MapPut(reg, entryId, [reg[entryId] EXCEPT !.cooldownMs = @ + cooldownMs])
  ELSE MapPut(reg, entryId, [id |-> entryId, exhaustedAt |-> t, cooldownMs |-> cooldownMs])

markExhausted(reg, entryId, cooldownMs, t) ==
  MapPut(reg, entryId, [id |-> entryId, exhaustedAt |-> t, cooldownMs |-> cooldownMs])

\* config.defaultCooldownMs ?? DEFAULT_COOLDOWN_MS
globalDefaultCooldown(cfg) ==
  IF cfg.defaultCooldownMs = None THEN DEFAULT_COOLDOWN_MS ELSE The(cfg.defaultCooldownMs)

parseEntryId(entryId) ==
  LET parts == Split(entryId, "/")
  IN IF Len(parts) = 2 THEN [provider |-> parts[1], modelId |-> Some(parts[2])]
     ELSE [provider |-> entryId, modelId |-> None]

(***************************************************************************)
(* Stored credentials                                                      *)
(***************************************************************************)

\* config.credentials?.[providerId]: the provider's named credentials, in
\* insertion order, or None.
storedCredentials(cfg, providerId) ==
  IF cfg = None THEN None
  ELSE IF The(cfg).credentials = None THEN None
  ELSE IF providerId \notin DOMAIN The(The(cfg).credentials) THEN None
  ELSE Some(The(The(cfg).credentials)[providerId])

NamesOf(entries) == [i \in DOMAIN entries |-> entries[i].name]

IndexOf(seq, x) ==
  IF \E i \in DOMAIN seq : seq[i] = x
  THEN (CHOOSE i \in DOMAIN seq : seq[i] = x /\ \A j \in 1..(i - 1) : seq[j] # x) - 1
  ELSE -1

\* state.activeCredential.get(providerId) || "primary"
activeOrPrimary(active, providerId) ==
  IF providerId \in DOMAIN active /\ active[providerId] # <<>>
  THEN active[providerId] ELSE PRIMARY

\* the loop of getNextCredential from step i (0-based) on
RECURSIVE credentialScan(_, _, _, _, _, _, _)
credentialScan(names, startIndex, i, current, providerId, reg, t) ==
  IF i >= Len(names) THEN [result |-> None, reg |-> reg]
  ELSE LET name == names[((startIndex + i) % Len(names)) + 1]
           ex == isExhausted(reg, CredKey(providerId, name), t)
       IN IF name = current
          THEN credentialScan(names, startIndex, i + 1, current, providerId, reg, t)
          ELSE IF ~ex.result THEN [result |-> Some(name), reg |-> ex.reg]
          ELSE credentialScan(names, startIndex, i + 1, current, providerId, ex.reg, t)

\* getNextCredential that never finds another credential
getNextCredentialNone(cfg, active, reg, providerId, t) == [result |-> None, reg |-> reg]

\* getNextCredential that scans from the first name on
getNextCredentialFromStart(cfg, active, reg, providerId, t) ==
  LET stored == storedCredentials(cfg, providerId)
  IN IF stored = None THEN [result |-> None, reg |-> reg]
     ELSE IF Len(The(stored)) <= 1 THEN [result |-> None, reg |-> reg]
     ELSE credentialScan(NamesOf(The(stored)), 0, 0,
                         activeOrPrimary(active, providerId), providerId, reg, t)

\* getNextCredential without the test for a single stored credential
getNextCredentialAnyCount(cfg, active, reg, providerId, t) ==
  LET stored == storedCredentials(cfg, providerId)
  IN IF stored = None THEN [result |-> None, reg |-> reg]
     ELSE LET names == NamesOf(The(stored))
              current == activeOrPrimary(active, providerId)
              currentIndex == IndexOf(names, current)
          IN IF Len(names) = 0 THEN [result |-> None, reg |-> reg]
             ELSE credentialScan(names,
                                 IF currentIndex = -1 THEN 0
                                 ELSE (currentIndex + 1) % Len(names),
                                 0, current, providerId, reg, t)

getNextCredential(cfg, active, reg, providerId, t) ==
  LET stored == storedCredentials(cfg, providerId)
  IN IF stored = None THEN [result |-> None, reg |-> reg]
     ELSE LET names == NamesOf(The(stored))
              current == activeOrPrimary(active, providerId)
              currentIndex == IndexOf(names, current)
          IN IF Len(names) <= 1 THEN [result |-> None, reg |-> reg]
             ELSE credentialScan(names,
                                 IF currentIndex = -1 THEN 0
                                 ELSE (currentIndex + 1) % Len(names),
                                 0, current, providerId, reg, t)

credentialsMatch(a, b) ==
  IF a.type # b.type THEN FALSE
  ELSE IF a.type = "oauth" THEN a.secret = b.secret
  ELSE IF a.type = "api_key" THEN a.secret = b.secret
  ELSE FALSE

RECURSIVE DigitsOf(_)
DigitsOf(n) ==
  LET d == CASE n % 10 = 0 -> "0" [] n % 10 = 1 -> "1" [] n % 10 = 2 -> "2"
             [] n % 10 = 3 -> "3" [] n % 10 = 4 -> "4" [] n % 10 = 5 -> "5"
             [] n % 10 = 6 -> "6" [] n % 10 = 7 -> "7" [] n % 10 = 8 -> "8"
             [] OTHER -> "9"
  IN IF n < 10 THEN <<d>> ELSE Append(DigitsOf(n \div 10), d)

\* `backup-${counter}`
BackupName(counter) == <<"backup", "-">> \o DigitsOf(counter)

HasName(entries, name) == \E i \in DOMAIN entries : entries[i].name = name

\* `backup-${n}` where n is the number of stored entries
firstFreeBackupByCount(entries, counter) == BackupName(Len(entries))

RECURSIVE firstFreeBackup(_, _)
firstFreeBackup(entries, counter) ==
  IF HasName(entries, BackupName(counter)) THEN firstFreeBackup(entries, counter + 1)
  ELSE BackupName(counter)

\* `existingEntries[name] = credentials`: the value under an existing name is
\* replaced in place, a new name is added after the others
setNamed(entries, name, credentials) ==
  IF HasName(entries, name)
  THEN [i \in DOMAIN entries |->
          IF entries[i].name = name THEN [name |-> name, cred |-> credentials]
          ELSE entries[i]]
  ELSE Append(entries, [name |-> name, cred |-> credentials])

\* the body of syncAuthToHa's loop for one provider of auth.json
syncProvider(existingEntries, credentials) ==
  IF \E i \in DOMAIN existingEntries : credentialsMatch(credentials, existingEntries[i].cred)
  THEN existingEntries
  ELSE setNamed(existingEntries,
                IF HasName(existingEntries, PRIMARY)
                THEN firstFreeBackup(existingEntries, 1) ELSE PRIMARY,
                credentials)

\* syncAuthToHa on a loaded configuration c, auth being loadAuthJson()
syncAuthToHa(c, auth) ==
  LET old == IF c.credentials = None THEN EmptyMap ELSE The(c.credentials)
  IN [c EXCEPT !.credentials =
        Some([p \in DOMAIN old \cup DOMAIN auth |->
               IF p \in DOMAIN auth
               THEN syncProvider(IF p \in DOMAIN old THEN old[p] ELSE <<>>, auth[p])
               ELSE old[p]])]

(***************************************************************************)
(* Host inputs                                                             *)
(***************************************************************************)

SP == " "
T429 == <<"4", "2", "9", SP, "rate", SP, "limit", SP, "exceeded">>
TInsufficient == <<"Insufficient", SP, "quota">>
TNoCapacity == <<"No", SP, "capacity", SP, "available", SP, "for", SP, "model", SP, "x">>
TRetryFailed == <<"Retry", SP, "failed", SP, "after", SP, "3", SP, "attempts">>
TOther == <<"connection", SP, "reset">>
\* a text that matches a quota pattern and a capacity pattern
TBoth == <<"4", "2", "9", SP, "server", SP, "overloaded">>

ErrorTexts == {T429, TInsufficient, TNoCapacity, TRetryFailed, TOther, TBoth}

Msg(role, stopReason, errorMessage) ==
  [role |-> role, stopReason |-> stopReason, errorMessage |-> errorMessage]

\* event.message of a turn_end event
TurnEndMessages ==
  {None, Some(Msg("user", "stop", None)), Some(Msg("assistant", "stop", None)),
   Some(Msg("assistant", "error", None)), Some(Msg("assistant", "error", Some(<<>>)))}
  \cup {Some(Msg("assistant", "error", Some(t))) : t \in ErrorTexts}

\* a turn that ended with the rate-limit error
RateLimited == Some(Msg("assistant", "error", Some(T429)))

\* turns that ended with a quota error
QuotaMessages == {RateLimited, Some(Msg("assistant", "error", Some(TInsufficient)))}

\* message.content of a user message: a string, or an array with one text part
StringContent(text) == [kind |-> "string", text |-> text]
PartsContent(text) == [kind |-> "parts", text |-> text]
Contents == {StringContent(<<"hi">>), PartsContent(<<"hi">>)}

\* JSON.stringify of an array with one text part
JsonStringify(c) ==
  <<"[", "{", "type", ":", "text", ",", "text", ":">> \o c.text \o <<"}", "]">>

\* typeof content === "string" ? content : JSON.stringify(content)
messageContentOf(c) == IF c.kind = "string" THEN c.text ELSE JsonStringify(c)

\* what the file system and the host do during one handler step:
\* saveOk: writeFileSync of auth.json succeeds;
\* fault: the host call that throws in this step, if any.
IOs == [saveOk : BOOLEAN, fault : {"none", "getBranch"}]

\* the write succeeds and no host call throws
SavedIO == [saveOk |-> TRUE, fault |-> "none"]

(***************************************************************************)
(* Bounds                                                                  *)
(***************************************************************************)

\* last clock value
MaxNow == 1
\* failover-worthy turn_end events delivered in one run
MaxEpisodes == 2

(***************************************************************************)
(* State                                                                   *)
(***************************************************************************)

VARIABLES
  config,            \* the module-level `config` (None when ha.json is absent)
  authJson,          \* contents of auth.json: provider -> credential
  activeGroup,       \* state.activeGroup
  exhausted,         \* state.exhausted
  lastRetryMessage,  \* state.lastRetryMessage
  isRetrying,        \* state.isRetrying
  activeCredential,  \* state.activeCredential
  now,               \* Date.now()
  ctxModel,          \* ctx.model, the host's active model
  lastUser,          \* content of the last user message of the session branch
  timers,            \* pending setTimeout(() => state.isRetrying = false, 5000)
  episodes,          \* turn_end events so far that were failover-worthy
  slots,             \* turn_end handler invocations in flight
  last,              \* what the invocation that returned in the last step did
  probe              \* input and result of a function applied on its own

vars == <<config, authJson, activeGroup, exhausted, lastRetryMessage, isRetrying,
          activeCredential, now, ctxModel, lastUser, timers, episodes, slots, last,
          probe>>

engine == <<activeGroup, exhausted, lastRetryMessage, isRetrying, activeCredential>>

\* handler invocations that can be suspended at the same time
Handlers == {1, 2}

IdleSlot ==
  [pc |-> "idle", currentModel |-> None, errorType |-> "none", entries |-> <<>>,
   idx |-> 0, selected |-> None, content |-> None, notes |-> <<>>]

NoneYet == [outcome |-> "none", notes |-> <<>>, message |-> None]

\* no function is being applied on its own
NoProbe == [kind |-> "none"]

\* state after `export default function (pi)` has run: config loaded, the
\* default group activated when it exists, credentials synced from auth.json
startupConfig(loaded, auth) ==
  IF loaded = None THEN None ELSE Some(syncAuthToHa(The(loaded), auth))

startupGroup(loaded) ==
  IF loaded = None THEN None
  ELSE IF The(loaded).defaultGroup # None
          /\ The(The(loaded).defaultGroup) \in DOMAIN The(loaded).groups
       THEN The(loaded).defaultGroup
       ELSE None

Init ==
  /\ \E s \in Startups :
       /\ config = startupConfig(s.loaded, s.auth)
       /\ authJson = s.auth
       /\ activeGroup = startupGroup(s.loaded)
  /\ exhausted = EmptyMap
  /\ lastRetryMessage = None
  /\ isRetrying = FALSE
  /\ activeCredential = EmptyMap
  /\ now = 0
  /\ ctxModel \in {Some(M1), Some(G1)}
  /\ lastUser \in {None, Some(StringContent(<<"hi">>))}
  /\ timers = 0
  /\ episodes = 0
  /\ slots = [h \in Handlers |-> IdleSlot]
  /\ last = NoneYet
  /\ probe = NoProbe

(***************************************************************************)
(* Credential switch                                                       *)
(***************************************************************************)

credentialNamed(entries, name) ==
  IF HasName(entries, name)
  THEN Some((entries[CHOOSE i \in DOMAIN entries : entries[i].name = name]).cred)
  ELSE None

\* switchOAuthCredential that records the name before it looks for the blob
switchOAuthCredentialRecordFirst(cfg, auth, active, providerId, credentialName, io) ==
  LET stored == storedCredentials(cfg, providerId)
      blob == IF stored = None THEN None ELSE credentialNamed(The(stored), credentialName)
  IN IF blob = None
     THEN [ok |-> FALSE, auth |-> auth, active |-> MapPut(active, providerId, credentialName)]
     ELSE [ok |-> TRUE,
           auth |-> IF io.saveOk THEN MapPut(auth, providerId, The(blob)) ELSE auth,
           active |-> MapPut(active, providerId, credentialName)]

\* switchOAuthCredential: whether it switched, auth.json and
\* state.activeCredential afterwards.  io.saveOk: saveAuthJson wrote the file
\* (its catch swallows a failed write).
switchOAuthCredential(cfg, auth, active, providerId, credentialName, io) ==
  LET stored == storedCredentials(cfg, providerId)
      blob == IF stored = None THEN None ELSE credentialNamed(The(stored), credentialName)
      loaded == auth
  IN IF blob = None THEN [ok |-> FALSE, auth |-> auth, active |-> active]
     ELSE [ok |-> TRUE,
           auth |-> IF io.saveOk THEN MapPut(loaded, providerId, The(blob)) ELSE auth,
           active |-> MapPut(active, providerId, credentialName)]

(***************************************************************************)
(* Endpoint rotation                                                       *)
(***************************************************************************)

modelsOf(provider) == SelectSeq(AvailableModels, LAMBDA m : m.provider = provider)

\* model selection that ignores the entry's model id
selectModelFirst(entryId) ==
  LET availableModels == modelsOf(parseEntryId(entryId).provider)
  IN IF availableModels = <<>> THEN None ELSE Some(availableModels[1])

\* the model findNextAvailableProvider resolves for an entry, or None
selectModel(entryId) ==
  LET parsed == parseEntryId(entryId)
      availableModels == modelsOf(parsed.provider)
  IN IF availableModels = <<>> THEN None
     ELSE IF parsed.modelId # None /\ The(parsed.modelId) # <<>>
          THEN IF \E i \in DOMAIN availableModels : availableModels[i].id = The(parsed.modelId)
               THEN Some(availableModels[CHOOSE i \in DOMAIN availableModels :
                           /\ availableModels[i].id = The(parsed.modelId)
                           /\ \A j \in 1..(i - 1) : availableModels[j].id # The(parsed.modelId)])
               ELSE None
          ELSE Some(availableModels[1])

\* first entry examined by `for (const entry of group.entries)`
firstEntryIndex(entries, currentModel) == 1

\* the loop without the exhaustion check
RECURSIVE scanEntriesNoCheck(_, _, _, _)
scanEntriesNoCheck(entries, i, reg, t) ==
  IF i > Len(entries) THEN [kind |-> "null", idx |-> 0, selected |-> None, reg |-> reg]
  ELSE LET sel == selectModel(entries[i].id)
       IN IF sel = None THEN scanEntriesNoCheck(entries, i + 1, reg, t)
          ELSE [kind |-> "await", idx |-> i, selected |-> sel, reg |-> reg]

\* The loop of findNextAvailableProvider from entry i on, up to its next
\* await: either it suspends in getApiKey(selected) for entry idx, or it
\* leaves the loop and returns null.
RECURSIVE scanEntries(_, _, _, _)
scanEntries(entries, i, reg, t) ==
  IF i > Len(entries) THEN [kind |-> "null", idx |-> 0, selected |-> None, reg |-> reg]
  ELSE LET ex == isExhausted(reg, entries[i].id, t)
           sel == selectModel(entries[i].id)
       IN IF ex.result THEN scanEntries(entries, i + 1, ex.reg, t)
          ELSE IF sel = None THEN scanEntries(entries, i + 1, ex.reg, t)
          ELSE [kind |-> "await", idx |-> i, selected |-> sel, reg |-> ex.reg]

\* entries of the active group as findNextAvailableProvider reads them, or
\* None when it returns null before the loop
activeEntries(cfg, group) ==
  IF cfg = None \/ group = None THEN None
  ELSE IF The(group) \notin DOMAIN The(cfg).groups THEN None
  ELSE Some(The(cfg).groups[The(group)])

(***************************************************************************)
(* turn_end handler                                                        *)
(***************************************************************************)

\* "Capacity" / "Quota" as the notifications derive it
categoryOf(errorMessage, provider) ==
  IF isCapacityError(errorMessage, provider) THEN "Capacity" ELSE "Quota"

Note(kind, category) == <<kind, category>>

providerOf(m) == IF m = None THEN None ELSE Some(The(m).provider)

\* the handler invocation in slot h returns (or throws): the slot is free
\* again and `last` records what the invocation did and, when it returned
\* in the step that delivered the event, the event's message
Finish(h, slot, outcome, message) ==
  /\ slots' = [slots EXCEPT ![h] = IdleSlot]
  /\ last' = [outcome |-> outcome, notes |-> slot.notes, message |-> message]

\* the guard testing the configuration only
groupGuardConfigOnly == config = None

\* the guard `if (!config || !state.activeGroup) return;`
groupGuard == config = None \/ activeGroup = None

\* the guard left out
retryGuardOff == FALSE

\* the guard `if (state.isRetrying) return;`
retryGuard == isRetrying

\* the duplicate check `state.lastRetryMessage === messageContent`
alreadyRetried(c) == lastRetryMessage = Some(messageContentOf(c))

\* Endpoint part of the handler, from "Mark current provider as exhausted"
\* to the first await inside findNextAvailableProvider or to the return
\* after the "no failover" notification.  reg is the registry after the
\* credential part.
EndpointPart(h, slot, reg, message) ==
  LET cfg == The(config)
      reg2 == IF slot.currentModel = None THEN reg
              ELSE markExhausted(reg, EndpointKey(The(slot.currentModel)),
                                 globalDefaultCooldown(cfg), now)
      group == activeEntries(config, activeGroup)
      scan == IF group = None
              THEN [kind |-> "null", idx |-> 0, selected |-> None, reg |-> reg2]
              ELSE scanEntries(The(group),
                               firstEntryIndex(The(group), slot.currentModel), reg2, now)
      s1 == [slot EXCEPT !.entries = IF group = None THEN <<>> ELSE The(group)]
  IN /\ exhausted' = scan.reg
     /\ IF scan.kind = "null"
        THEN Finish(h, [s1 EXCEPT !.notes = Append(@, Note("noFailover", "none"))],
                    "noFailover", message)
        ELSE /\ slots' = [slots EXCEPT ![h] =
                            [s1 EXCEPT !.pc = "getApiKey", !.idx = scan.idx,
                                       !.selected = scan.selected]]
             /\ last' = NoneYet

\* A turn_end event arrives and the handler runs up to its first await.
TurnEnd(h, message) ==
  /\ slots[h].pc = "idle"
  /\ \A k \in 1..(h - 1) : slots[k].pc # "idle"
  /\ episodes < MaxEpisodes
  /\ UNCHANGED <<config, activeGroup, now, ctxModel, lastUser, timers, probe>>
  /\ episodes' = IF /\ config # None /\ activeGroup # None /\ ~retryGuard
                    /\ message # None /\ The(message).role = "assistant"
                    /\ shouldTriggerFailover(The(message).errorMessage, providerOf(ctxModel))
                 THEN episodes + 1 ELSE episodes
  /\ IF groupGuard
     THEN /\ Finish(h, IdleSlot, "noGroup", message)
          /\ UNCHANGED <<authJson, exhausted, lastRetryMessage, isRetrying, activeCredential>>
     ELSE IF retryGuard
     THEN /\ Finish(h, IdleSlot, "retrying", message)
          /\ UNCHANGED <<authJson, exhausted, lastRetryMessage, isRetrying, activeCredential>>
     ELSE IF message = None \/ The(message).role # "assistant"
     THEN /\ Finish(h, IdleSlot, "noMessage", message)
          /\ UNCHANGED <<authJson, exhausted, lastRetryMessage, isRetrying, activeCredential>>
     ELSE IF ~(The(message).stopReason = "error"
               \/ (The(message).errorMessage # None /\ The(The(message).errorMessage) # <<>>))
     THEN /\ Finish(h, IdleSlot, "noError", message)
          /\ UNCHANGED <<authJson, exhausted, lastRetryMessage, isRetrying, activeCredential>>
     ELSE
       LET cfg == The(config)
           currentModel == ctxModel
           currentProvider == providerOf(currentModel)
           errorMessage == The(message).errorMessage
           slot0 == [IdleSlot EXCEPT !.currentModel = currentModel,
                                     !.errorType = categoryOf(errorMessage, currentProvider)]
       IN IF ~shouldTriggerFailover(errorMessage, currentProvider)
          THEN /\ Finish(h, slot0, "notWorthy", message)
               /\ UNCHANGED <<authJson, exhausted, lastRetryMessage, isRetrying,
                              activeCredential>>
          ELSE IF currentProvider = None
          THEN /\ EndpointPart(h, slot0, exhausted, message)
               /\ UNCHANGED <<authJson, lastRetryMessage, isRetrying, activeCredential>>
          ELSE
            LET provider == The(currentProvider)
                currentCredName == activeOrPrimary(activeCredential, provider)
                reg1 == markExhausted(exhausted, CredKey(provider, currentCredName),
                                      globalDefaultCooldown(cfg), now)
                next == getNextCredential(config, activeCredential, reg1, provider, now)
                slot1 == [slot0 EXCEPT !.notes = Append(@, Note("credSwitch", slot0.errorType))]
            IN \E io \in IOs :
               LET sw == IF next.result = None
                         THEN [ok |-> FALSE, auth |-> authJson, active |-> activeCredential]
                         ELSE switchOAuthCredential(config, authJson, activeCredential,
                                                    provider, The(next.result), io)
               IN
               IF ~sw.ok
               THEN /\ EndpointPart(h, slot0, next.reg, message)
                    /\ UNCHANGED <<authJson, lastRetryMessage, isRetrying, activeCredential>>
               ELSE /\ exhausted' = next.reg
                    /\ authJson' = sw.auth
                    /\ activeCredential' = sw.active
                    /\ IF io.fault = "getBranch"
                       THEN /\ Finish(h, slot1, "threw", message)
                            /\ UNCHANGED <<lastRetryMessage, isRetrying>>
                       ELSE IF lastUser = None
                       THEN /\ Finish(h, slot1, "switchedNoUserMessage", message)
                            /\ UNCHANGED <<lastRetryMessage, isRetrying>>
                       ELSE /\ isRetrying' = TRUE
                            /\ lastRetryMessage' = Some(messageContentOf(The(lastUser)))
                            /\ slots' = [slots EXCEPT ![h] =
                                 [slot1 EXCEPT !.pc = "delayCred", !.content = lastUser]]
                            /\ last' = NoneYet

\* The handler, from the return of findNextAvailableProvider with a candidate
\* to the await of pi.setModel.
candidateFound(slot) ==
  [slot EXCEPT !.pc = "setModel",
               !.notes = Append(@, Note("switching", slot.errorType))]

\* the loop examining the same entry again after `continue`
resumeIndexSame(slot) == slot.idx

\* `if (!apiKey) continue;`: the loop goes on with the entry after the one
\* whose key lookup returned nothing
resumeIndex(slot) == slot.idx + 1

\* ctx.modelRegistry.getApiKey(selectedModel) settles: with a key, with
\* nothing, or by throwing.
GetApiKeyReturn(h, r) ==
  LET slot == slots[h]
      scan == scanEntries(slot.entries, resumeIndex(slot), exhausted, now)
  IN /\ slot.pc = "getApiKey"
     /\ UNCHANGED <<config, authJson, activeGroup, lastRetryMessage, isRetrying,
                    activeCredential, now, ctxModel, lastUser, timers, episodes, probe>>
     /\ CASE r = "throw" -> /\ Finish(h, slot, "threw", None)
                            /\ UNCHANGED exhausted
          [] r = "key" -> /\ slots' = [slots EXCEPT ![h] = candidateFound(slot)]
                          /\ UNCHANGED exhausted
                          /\ last' = NoneYet
          [] OTHER ->
               /\ exhausted' = scan.reg
               /\ IF scan.kind = "null"
                  THEN Finish(h, [slot EXCEPT !.selected = None,
                                    !.notes = Append(@, Note("noFailover", "none"))],
                              "noFailover", None)
                  ELSE /\ slots' = [slots EXCEPT ![h] =
                                      [slot EXCEPT !.idx = scan.idx,
                                                   !.selected = scan.selected]]
                       /\ last' = NoneYet

\* pi.setModel(next.model) settles: true, false, or by throwing; on true the
\* handler goes on to the retry decision.
SetModelReturn(h, r, io) ==
  LET slot == slots[h] IN
  /\ slot.pc = "setModel"
  /\ UNCHANGED <<config, authJson, activeGroup, exhausted, activeCredential, now,
                 lastUser, timers, episodes, probe>>
  /\ CASE r = "throw" -> /\ Finish(h, slot, "threw", None)
                         /\ UNCHANGED <<ctxModel, lastRetryMessage, isRetrying>>
       [] r = "false" ->
            /\ Finish(h, [slot EXCEPT !.notes = Append(@, Note("failedSwitch", "none"))],
                      "switchDeclined", None)
            /\ UNCHANGED <<ctxModel, lastRetryMessage, isRetrying>>
       [] OTHER ->
            /\ ctxModel' = slot.selected
            /\ IF io.fault = "getBranch"
               THEN /\ Finish(h, slot, "threw", None)
                    /\ UNCHANGED <<lastRetryMessage, isRetrying>>
               ELSE IF lastUser = None
               THEN /\ Finish(h, slot, "switchedNoUserMessage", None)
                    /\ UNCHANGED <<lastRetryMessage, isRetrying>>
               ELSE IF alreadyRetried(The(lastUser))
               THEN /\ Finish(h, slot, "duplicate", None)
                    /\ UNCHANGED <<lastRetryMessage, isRetrying>>
               ELSE /\ isRetrying' = TRUE
                    /\ lastRetryMessage' = Some(messageContentOf(The(lastUser)))
                    /\ slots' = [slots EXCEPT ![h] =
                                   [slot EXCEPT !.pc = "delayEndpoint", !.content = lastUser]]
                    /\ last' = NoneYet

\* The 500 ms delay is over: pi.sendUserMessage is called (and may throw) and
\* the release timer is armed where the code arms it.
DelayElapsed(h, sendThrows) ==
  LET slot == slots[h] IN
  /\ slot.pc \in {"delayCred", "delayEndpoint"}
  /\ UNCHANGED <<config, authJson, activeGroup, exhausted, lastRetryMessage, isRetrying,
                 activeCredential, now, ctxModel, episodes, probe>>
  /\ IF slot.pc = "delayCred"
     THEN IF sendThrows
          THEN /\ Finish(h, slot, "threw", None)
               /\ UNCHANGED <<lastUser, timers>>
          ELSE /\ lastUser' = slot.content
               /\ timers' = timers + 1
               /\ Finish(h, slot, "retried", None)
     ELSE IF sendThrows
          THEN /\ timers' = timers + 1
               /\ Finish(h, [slot EXCEPT !.notes = Append(@, Note("retryFailed", "none"))],
                         "retryThrew", None)
               /\ UNCHANGED lastUser
          ELSE /\ lastUser' = slot.content
               /\ timers' = timers + 1
               /\ Finish(h, [slot EXCEPT !.notes = Append(@, Note("retrying", "none"))],
                         "retried", None)

\* setTimeout(() => { state.isRetrying = false; }, 5000) fires
ReleaseTimer ==
  /\ timers > 0
  /\ timers' = timers - 1
  /\ isRetrying' = FALSE
  /\ UNCHANGED <<config, authJson, activeGroup, exhausted, lastRetryMessage,
                 activeCredential, now, ctxModel, lastUser, slots, episodes, probe>>
  /\ last' = NoneYet

\* turn_start handler that clears the fingerprint during a retry too
TurnStartAlways ==
  /\ lastRetryMessage' = None
  /\ UNCHANGED <<config, authJson, activeGroup, exhausted, isRetrying, activeCredential,
                 now, ctxModel, lastUser, timers, slots, episodes, probe>>
  /\ last' = NoneYet

\* turn_start handler
TurnStart ==
  /\ lastRetryMessage' =
       IF lastRetryMessage # None /\ The(lastRetryMessage) # <<>> /\ ~isRetrying
       THEN None ELSE lastRetryMessage
  /\ UNCHANGED <<config, authJson, activeGroup, exhausted, isRetrying, activeCredential,
                 now, ctxModel, lastUser, timers, slots, episodes, probe>>
  /\ last' = NoneYet

\* /ha-use that keeps the registry
HaUseKeepsRegistry(groupName) ==
  /\ IF groupName = "" \/ config = None THEN UNCHANGED <<activeGroup, exhausted>>
     ELSE IF groupName \notin DOMAIN The(config).groups
     THEN UNCHANGED <<activeGroup, exhausted>>
     ELSE /\ activeGroup' = Some(groupName)
          /\ UNCHANGED exhausted
  /\ UNCHANGED <<config, authJson, lastRetryMessage, isRetrying, activeCredential, now,
                 ctxModel, lastUser, timers, slots, episodes, probe>>
  /\ last' = NoneYet

\* /ha-use <group-name>
HaUse(groupName) ==
  /\ IF groupName = "" \/ config = None THEN UNCHANGED <<activeGroup, exhausted>>
     ELSE IF groupName \notin DOMAIN The(config).groups
     THEN UNCHANGED <<activeGroup, exhausted>>
     ELSE /\ activeGroup' = Some(groupName)
          /\ exhausted' = EmptyMap
  /\ UNCHANGED <<config, authJson, lastRetryMessage, isRetrying, activeCredential, now,
                 ctxModel, lastUser, timers, slots, episodes, probe>>
  /\ last' = NoneYet

GroupNames == {"", "ga", "gs", "zz"}

\* /ha-switch <provider> <credential-name>; parts is args.trim().split(" ")
HaSwitch(parts, io) ==
  /\ IF Len(parts) < 2
     THEN /\ UNCHANGED <<authJson, activeCredential>>
          /\ last' = [outcome |-> "usage", notes |-> <<Note("usage", "none")>>,
                      message |-> None]
     ELSE LET sw == switchOAuthCredential(config, authJson, activeCredential,
                                          parts[1], parts[2], io)
          IN /\ authJson' = sw.auth
             /\ activeCredential' = sw.active
             /\ last' = IF sw.ok
                        THEN [outcome |-> "switched",
                              notes |-> <<Note("switched", "none")>>, message |-> None]
                        ELSE [outcome |-> "switchFailed",
                              notes |-> <<Note("failedSwitch", "none")>>, message |-> None]
  /\ UNCHANGED <<config, activeGroup, exhausted, lastRetryMessage, isRetrying, now,
                 ctxModel, lastUser, timers, slots, episodes, probe>>

\* /ha-sync
HaSync ==
  /\ IF config = None
     THEN /\ UNCHANGED config
          /\ last' = [outcome |-> "notConfigured",
                      notes |-> <<Note("notConfigured", "none")>>, message |-> None]
     ELSE /\ config' = Some(syncAuthToHa(The(config), authJson))
          /\ last' = [outcome |-> "synced",
                      notes |-> <<Note("synced", "none")>>, message |-> None]
  /\ UNCHANGED <<authJson, activeGroup, exhausted, lastRetryMessage, isRetrying,
                 activeCredential, now, ctxModel, lastUser, timers, slots, episodes,
                 probe>>

\* the user sends a message: it becomes the last user message of the branch
UserMessage(c) ==
  /\ lastUser' = Some(c)
  /\ UNCHANGED <<config, authJson, activeGroup, exhausted, lastRetryMessage, isRetrying,
                 activeCredential, now, ctxModel, timers, slots, episodes, probe>>
  /\ last' = NoneYet

\* the clock advances
Tick ==
  /\ now < MaxNow
  /\ now' = now + 1
  /\ UNCHANGED <<config, authJson, activeGroup, exhausted, lastRetryMessage, isRetrying,
                 activeCredential, ctxModel, lastUser, timers, slots, episodes, probe>>
  /\ last' = NoneYet

\* what happens while handlers are suspended or idle
Settle ==
  \/ \E h \in Handlers : \E r \in {"key", "null", "throw"} : GetApiKeyReturn(h, r)
  \/ \E h \in Handlers : \E r \in {"true", "false", "throw"} : \E io \in IOs :
       SetModelReturn(h, r, io)
  \/ \E h \in Handlers : \E sendThrows \in BOOLEAN : DelayElapsed(h, sendThrows)

Idle == \A k \in Handlers : slots[k].pc = "idle"

\* A host that awaits the turn_end handler before it emits the next
\* turn_end: invocations do not overlap.
TurnEndAlone(m) == Idle /\ TurnEnd(1, m)

Next ==
  \/ \E m \in TurnEndMessages : TurnEndAlone(m)
  \/ Settle
  \/ ReleaseTimer
  \/ TurnStart
  \/ \E g \in GroupNames : HaUse(g)
  \/ \E c \in Contents : UserMessage(c)
  \/ Tick

Spec == Init /\ [][Next]_vars

\* A host that emits turn_end without awaiting earlier invocations: a second
\* invocation may start while the first is suspended at an await.
NextOverlap ==
  \/ \E h \in Handlers : \E m \in TurnEndMessages : TurnEnd(h, m)
  \/ Settle
  \/ ReleaseTimer
  \/ TurnStart
  \/ \E g \in GroupNames : HaUse(g)
  \/ \E c \in Contents : UserMessage(c)
  \/ Tick

SpecOverlap == Init /\ [][NextOverlap]_vars

(***************************************************************************)
(* The classifier applied on its own                                       *)
(***************************************************************************)

\* "Retry failed after N attempts" for a run of digits n
RetryFailedAfter(n) == <<"Retry", SP, "failed", SP, "after", SP>> \o n \o <<SP, "attempts">>

AttemptCounts == {<<"0">>, <<"3">>, <<"1", "0">>, <<"4", "2", "9">>}

\* pieces of error text
Fragments ==
  {TNoCapacity, T429, TInsufficient, TOther,
   <<"quota", SP, "exceeded">>, <<"resource", SP, "exhausted">>, <<"RATE", SP, "limit">>,
   <<"rate", "_", "limit">>, <<"exceeded", "_", "current", "_", "quota">>,
   <<"billing", SP, "account", SP, "exhausted">>, <<"exhausted", SP, "billing">>,
   <<"capacity", SP, "constraints">>, <<"engine", SP, "overloaded">>,
   <<"server", SP, "overloaded">>, <<"temporarily", SP, "unavailable">>,
   <<"Retry", SP, "failed", SP, "after", SP, "attempts">>}
  \cup {RetryFailedAfter(n) : n \in AttemptCounts}

\* most fragments in one error text
MaxParts == 2

\* texts of at most k fragments, joined by spaces
RECURSIVE TextsOf(_)
TextsOf(k) ==
  IF k <= 1 THEN Fragments
  ELSE TextsOf(k - 1) \cup {t \o <<SP>> \o f : t \in TextsOf(k - 1), f \in Fragments}

\* message.errorMessage: absent, empty, or a text
ClassifierTexts == {None, Some(<<>>)} \cup {Some(t) : t \in TextsOf(MaxParts)}

\* ctx.model?.provider: absent, or a provider id
ClassifierProviders ==
  {None, Some(P1), Some(GEM), Some(<<"google">>), Some(<<"vertex", "-", "gemini">>)}

\* every variable of the engine, at rest while a function is applied on its own
rest == <<config, authJson, activeGroup, exhausted, lastRetryMessage, isRetrying,
          activeCredential, now, ctxModel, lastUser, timers, episodes, slots, last>>

AtRest ==
  /\ config = None
  /\ authJson = NoAuth
  /\ activeGroup = None
  /\ exhausted = EmptyMap
  /\ lastRetryMessage = None
  /\ isRetrying = FALSE
  /\ activeCredential = EmptyMap
  /\ now = 0
  /\ ctxModel = None
  /\ lastUser = None
  /\ timers = 0
  /\ episodes = 0
  /\ slots = [h \in Handlers |-> IdleSlot]
  /\ last = NoneYet

ClassifyInit ==
  /\ AtRest
  /\ \E e \in ClassifierTexts : \E p \in ClassifierProviders :
       probe = [kind |-> "classify", errorMessage |-> e, provider |-> p, done |-> FALSE,
                quota |-> FALSE, capacity |-> FALSE, worthy |-> FALSE, category |-> "None"]

\* the gate of the turn_end handler and the category its notifications derive
Classify ==
  /\ probe.kind = "classify"
  /\ ~probe.done
  /\ probe' = [probe EXCEPT
       !.done = TRUE,
       !.quota = isQuotaError(probe.errorMessage),
       !.capacity = isCapacityError(probe.errorMessage, probe.provider),
       !.worthy = shouldTriggerFailover(probe.errorMessage, probe.provider),
       !.category = IF shouldTriggerFailover(probe.errorMessage, probe.provider)
                    THEN categoryOf(probe.errorMessage, probe.provider)
                    ELSE "None"]
  /\ UNCHANGED rest

SpecClassify == ClassifyInit /\ [][Classify]_vars

(***************************************************************************)
(* The exhaustion registry used on its own                                 *)
(***************************************************************************)

\* keys marked and queried: a credential key and an endpoint key
RegistryKeys == {CredKey(P1, PRIMARY), EndpointKey(M1)}

\* cooldowns passed to markExhausted
CooldownValues == {-1, 0, 1, 2}

\* last clock value of the registry runs
MaxClock == 3

\* probe.marks[k]: the most recent markExhausted(k, c) since the last clear,
\* as [at, c], or None.  probe.op, key, result, prev: the last operation, its
\* key, the answer of a query, the entry a mark found in place.
RegistryInit ==
  /\ AtRest
  /\ probe = [kind |-> "registry", marks |-> [k \in RegistryKeys |-> None],
              op |-> "none", key |-> <<>>, result |-> FALSE, prev |-> None]

RegistryMark(k, c) ==
  /\ probe.kind = "registry"
  /\ exhausted' = markExhausted(exhausted, k, c, now)
  /\ probe' = [probe EXCEPT !.marks[k] = Some([at |-> now, c |-> c]),
                            !.op = "mark", !.key = k, !.result = FALSE,
                            !.prev = IF k \in DOMAIN exhausted THEN Some(exhausted[k]) ELSE None]
  /\ UNCHANGED <<config, authJson, activeGroup, lastRetryMessage, isRetrying,
                 activeCredential, now, ctxModel, lastUser, timers, episodes, slots, last>>

RegistryQuery(k) ==
  /\ probe.kind = "registry"
  /\ exhausted' = isExhausted(exhausted, k, now).reg
  /\ probe' = [probe EXCEPT !.op = "query", !.key = k,
                            !.result = isExhausted(exhausted, k, now).result,
                            !.prev = None]
  /\ UNCHANGED <<config, authJson, activeGroup, lastRetryMessage, isRetrying,
                 activeCredential, now, ctxModel, lastUser, timers, episodes, slots, last>>

\* state.exhausted.clear()
RegistryClear ==
  /\ probe.kind = "registry"
  /\ exhausted' = EmptyMap
  /\ probe' = [probe EXCEPT !.marks = [k \in RegistryKeys |-> None],
                            !.op = "clear", !.key = <<>>, !.result = FALSE, !.prev = None]
  /\ UNCHANGED <<config, authJson, activeGroup, lastRetryMessage, isRetrying,
                 activeCredential, now, ctxModel, lastUser, timers, episodes, slots, last>>

RegistryTick ==
  /\ probe.kind = "registry"
  /\ now < MaxClock
  /\ now' = now + 1
  /\ probe' = [probe EXCEPT !.op = "tick", !.key = <<>>, !.result = FALSE, !.prev = None]
  /\ UNCHANGED <<config, authJson, activeGroup, exhausted, lastRetryMessage, isRetrying,
                 activeCredential, ctxModel, lastUser, timers, episodes, slots, last>>

RegistryNext ==
  \/ \E k \in RegistryKeys : \E c \in CooldownValues : RegistryMark(k, c)
  \/ \E k \in RegistryKeys : RegistryQuery(k)
  \/ RegistryClear
  \/ RegistryTick

SpecRegistry == RegistryInit /\ [][RegistryNext]_vars

(***************************************************************************)
(* Endpoint rotation over arbitrary groups                                 *)
(***************************************************************************)

\* a provider without available models, and an entry naming a model the
\* availability lookup does not list
P3 == <<"p3">>
MissingModel == <<"p1", "/", "zz">>

\* ids a group entry is drawn from
RotationIds ==
  {P1, EndpointKey(M1), EndpointKey(M1b), EndpointKey(M2), P3, MissingModel}

\* longest group
MaxEntries == 3

RECURSIVE GroupsOf(_)
GroupsOf(k) ==
  IF k = 0 THEN {<<>>}
  ELSE GroupsOf(k - 1)
         \cup {Append(g, Entry(id)) : g \in {x \in GroupsOf(k - 1) : Len(x) = k - 1},
                                      id \in RotationIds}

RotationConfig(entries) ==
  [groups |-> [g \in {"gr"} |-> entries],
   defaultGroup |-> Some("gr"),
   defaultCooldownMs |-> Some(2),
   credentials |-> None]

\* endpoint keys earlier turn_end events may have marked, at time 0 (expired
\* by now) or at time 1 (still cooling down)
EarlierKeys == {EndpointKey(M1b), EndpointKey(M2)}

EarlierRegistries ==
  UNION { [ks -> {0, 1}] : ks \in SUBSET EarlierKeys }

RotationNow == 2

RotationInit ==
  /\ \E entries \in GroupsOf(MaxEntries) :
       config = Some(RotationConfig(entries))
  /\ authJson = NoAuth
  /\ activeGroup = Some("gr")
  /\ \E at \in EarlierRegistries :
       exhausted = [k \in DOMAIN at |->
                      [id |-> k, exhaustedAt |-> at[k], cooldownMs |-> 2]]
  /\ lastRetryMessage = None
  /\ isRetrying = FALSE
  /\ activeCredential = EmptyMap
  /\ now = RotationNow
  /\ ctxModel \in {Some(M1), Some(M2)}
  /\ lastUser = Some(StringContent(<<"hi">>))
  /\ timers = 0
  /\ episodes = 0
  /\ slots = [h \in Handlers |-> IdleSlot]
  /\ last = NoneYet
  /\ probe = NoProbe

\* a quota error ends a turn; the rotation pass runs until it returns
RotationNext ==
  \/ TurnEndAlone(RateLimited)
  \/ \E r \in {"key", "null", "throw"} : GetApiKeyReturn(1, r)

SpecRotation == RotationInit /\ [][RotationNext]_vars

(***************************************************************************)
(* Credential sync over arbitrary stores                                   *)
(***************************************************************************)

WORK == <<"work">>

\* a credential of a type credentialsMatch does not know
Token(t) == [type |-> "token", secret |-> t]

\* names and credentials found under config.credentials[provider] in ha.json
StoredNames == {PRIMARY, BACKUP1, BACKUP2, WORK}
StoredCredentials == {OAuth("r1"), OAuth("r2"), ApiKey("k1")}

\* credentials found in auth.json
AuthCredentials == {OAuth("r1"), OAuth("r3"), ApiKey("k1"), ApiKey("r1"), Token("t1")}

\* most credentials stored for a provider before a sync
MaxStored == 2

\* stores of up to k named credentials, no name twice
RECURSIVE StoresOf(_)
StoresOf(k) ==
  IF k = 0 THEN {<<>>}
  ELSE StoresOf(k - 1)
         \cup {Append(st, [name |-> n, cred |-> c]) :
                 st \in {x \in StoresOf(k - 1) : Len(x) = k - 1},
                 n \in StoredNames, c \in StoredCredentials}

UniqueNames(entries) ==
  \A i, j \in DOMAIN entries : entries[i].name = entries[j].name => i = j

SyncConfig(creds) ==
  [groups |-> [g \in {"gb"} |-> <<Entry(EndpointKey(M1)), Entry(EndpointKey(M2))>>],
   defaultGroup |-> Some("gb"),
   defaultCooldownMs |-> None,
   credentials |-> creds]

SyncInit ==
  /\ \/ config = None
     \/ config = Some(SyncConfig(Some(EmptyMap)))
     \/ \E st \in {x \in StoresOf(MaxStored) : UniqueNames(x)} :
          config = Some(SyncConfig(Some([p \in {P1} |-> st])))
  /\ authJson \in {NoAuth, [p \in {P2} |-> OAuth("r2")]}
                   \cup {AuthP1(c) : c \in AuthCredentials}
  /\ activeGroup = startupGroup(config)
  /\ exhausted = EmptyMap
  /\ lastRetryMessage = None
  /\ isRetrying = FALSE
  /\ activeCredential = EmptyMap
  /\ now = 0
  /\ ctxModel = Some(M1)
  /\ lastUser = None
  /\ timers = 0
  /\ episodes = 0
  /\ slots = [h \in Handlers |-> IdleSlot]
  /\ last = NoneYet
  /\ probe = NoProbe

\* the host rewrites auth.json: a login for provider P1
Login(c) ==
  /\ authJson' = MapPut(authJson, P1, c)
  /\ last' = NoneYet
  /\ UNCHANGED <<config, activeGroup, exhausted, lastRetryMessage, isRetrying,
                 activeCredential, now, ctxModel, lastUser, timers, slots, episodes,
                 probe>>

\* every provider of auth.json has at most MaxStored credentials stored
SyncRoom ==
  \A p \in DOMAIN authJson :
    storedCredentials(config, p) # None => Len(The(storedCredentials(config, p))) <= MaxStored

\* /ha-sync while there is room in the stores
SyncStep == SyncRoom /\ HaSync

SyncNext ==
  \/ SyncStep
  \/ \E c \in AuthCredentials : Login(c)

SpecSync == SyncInit /\ [][SyncNext]_vars

(***************************************************************************)
(* Credential rotation over arbitrary stores                               *)
(***************************************************************************)

\* most credentials stored for the provider
MaxCreds == 3

\* stores of up to k credentials under distinct names
RECURSIVE NamedStores(_)
NamedStores(k) ==
  IF k = 0 THEN {<<>>}
  ELSE NamedStores(k - 1)
         \cup {Append(st, [name |-> n, cred |-> OAuth("r1")]) :
                 st \in {x \in NamedStores(k - 1) : Len(x) = k - 1},
                 n \in StoredNames}

\* credential keys earlier turn_end events may have marked
CredentialKeys == {CredKey(P1, n) : n \in StoredNames}

CredentialsInit ==
  /\ \E st \in {x \in NamedStores(MaxCreds) : UniqueNames(x)} :
       /\ config \in {Some(SyncConfig(Some([p \in {P1} |-> st])))}
                      \cup (IF st = <<>> THEN {Some(SyncConfig(Some(EmptyMap)))} ELSE {})
       /\ activeCredential \in
            {EmptyMap} \cup {[p \in {P1} |-> st[i].name] : i \in DOMAIN st}
  /\ authJson = NoAuth
  /\ activeGroup = Some("gb")
  /\ \E ks \in SUBSET CredentialKeys : \E at \in [ks -> {0, 1}] :
       exhausted = [k \in ks |-> [id |-> k, exhaustedAt |-> at[k], cooldownMs |-> 2]]
  /\ lastRetryMessage = None
  /\ isRetrying = FALSE
  /\ now = RotationNow
  /\ ctxModel = Some(M1)
  /\ lastUser = None
  /\ timers = 0
  /\ episodes = 0
  /\ slots = [h \in Handlers |-> IdleSlot]
  /\ last = NoneYet
  /\ probe = [kind |-> "nextCredential", done |-> FALSE, before |-> EmptyMap,
              result |-> None]

\* getNextCredential(P1) is called
NextCredential ==
  /\ probe.kind = "nextCredential"
  /\ ~probe.done
  /\ LET r == getNextCredential(config, activeCredential, exhausted, P1, now)
     IN /\ exhausted' = r.reg
        /\ probe' = [probe EXCEPT !.done = TRUE, !.before = exhausted,
                                  !.result = r.result]
  /\ UNCHANGED <<config, authJson, activeGroup, lastRetryMessage, isRetrying,
                 activeCredential, now, ctxModel, lastUser, timers, episodes, slots,
                 last>>

SpecCredentials == CredentialsInit /\ [][NextCredential]_vars

(***************************************************************************)
(* Repeated episodes on a host that answers every request                  *)
(***************************************************************************)

ResendInit ==
  /\ config = startupConfig(Some(CfgA), NoAuth)
  /\ authJson = NoAuth
  /\ activeGroup = startupGroup(Some(CfgA))
  /\ exhausted = EmptyMap
  /\ lastRetryMessage = None
  /\ isRetrying = FALSE
  /\ activeCredential = EmptyMap
  /\ now = 0
  /\ ctxModel \in {Some(M1), Some(G1)}
  /\ lastUser \in {Some(c) : c \in Contents}
  /\ timers = 0
  /\ episodes = 0
  /\ slots = [h \in Handlers |-> IdleSlot]
  /\ last = NoneYet
  /\ probe = NoProbe

\* every turn fails with a quota error; the key lookup finds a key, the host
\* accepts the model switch and the resend
ResendNext ==
  \/ \E m \in QuotaMessages : TurnEndAlone(m)
  \/ GetApiKeyReturn(1, "key")
  \/ SetModelReturn(1, "true", SavedIO)
  \/ DelayElapsed(1, FALSE)
  \/ ReleaseTimer
  \/ TurnStart
  \/ Tick

SpecResend == ResendInit /\ [][ResendNext]_vars

(***************************************************************************)
(* The extension without an active group                                   *)
(***************************************************************************)

\* ha.json without a default group, and with one that names no group
CfgNoDefault == [CfgB EXCEPT !.defaultGroup = None]
CfgBadDefault == [CfgB EXCEPT !.defaultGroup = Some("zz")]

DormantStartups ==
  { [loaded |-> None, auth |-> NoAuth],
    [loaded |-> None, auth |-> AuthP1(OAuth("r2"))],
    [loaded |-> Some(CfgNoDefault), auth |-> AuthP1(OAuth("r2"))],
    [loaded |-> Some(CfgBadDefault), auth |-> NoAuth] }

\* the words of a /ha-switch command line
SwitchArgs ==
  { << <<>> >>, <<P1>>, <<P1, PRIMARY>>, <<P1, BACKUP1>>, <<P1, BACKUP2>>,
    <<P1, <<>> >>, <<P2, PRIMARY>>, <<PRIMARY, P1>> }

DormantInit ==
  /\ \E s \in DormantStartups :
       /\ config = startupConfig(s.loaded, s.auth)
       /\ authJson = s.auth
       /\ activeGroup = startupGroup(s.loaded)
  /\ exhausted = EmptyMap
  /\ lastRetryMessage = None
  /\ isRetrying = FALSE
  /\ activeCredential = EmptyMap
  /\ now = 0
  /\ ctxModel \in {None, Some(M1), Some(G1)}
  /\ lastUser \in {None, Some(StringContent(<<"hi">>))}
  /\ timers = 0
  /\ episodes = 0
  /\ slots = [h \in Handlers |-> IdleSlot]
  /\ last = NoneYet
  /\ probe = NoProbe

\* turns end, with and without errors, and commands are typed before any
\* group is activated
DormantNext ==
  \/ \E m \in TurnEndMessages : TurnEndAlone(m)
  \/ TurnStart
  \/ \E g \in {"", "zz"} : HaUse(g)
  \/ \E parts \in SwitchArgs : \E io \in IOs : HaSwitch(parts, io)
  \/ Tick

SpecDormant == DormantInit /\ [][DormantNext]_vars

(***************************************************************************)
(* Commands typed while the engine is at work                              *)
(***************************************************************************)

\* quota errors end turns while /ha-use and /ha-switch are typed
CommandsNext ==
  \/ TurnEndAlone(RateLimited)
  \/ Settle
  \/ ReleaseTimer
  \/ \E g \in GroupNames : HaUse(g)
  \/ \E parts \in SwitchArgs : \E io \in {x \in IOs : x.fault = "none"} :
       HaSwitch(parts, io)
  \/ Tick

SpecCommands == Init /\ [][CommandsNext]_vars

(***************************************************************************)
(* Entry id parsing applied on its own                                     *)
(***************************************************************************)

\* longest entry id, in lexemes
MaxIdLen == 4

\* entry ids: texts over a provider name, a model name and "/"
RECURSIVE IdsOf(_)
IdsOf(k) ==
  IF k = 0 THEN {<<>>}
  ELSE IdsOf(k - 1)
         \cup {Append(t, x) : t \in {y \in IdsOf(k - 1) : Len(y) = k - 1},
                              x \in {"p1", "m1", "/"}}

ParseInit ==
  /\ AtRest
  /\ \E id \in IdsOf(MaxIdLen) \ {<<>>} :
       probe = [kind |-> "parse", entryId |-> id, done |-> FALSE,
                provider |-> <<>>, modelId |-> None]

\* parseEntryId(entry.id)
Parse ==
  /\ probe.kind = "parse"
  /\ ~probe.done
  /\ probe' = [probe EXCEPT !.done = TRUE,
                            !.provider = parseEntryId(probe.entryId).provider,
                            !.modelId = parseEntryId(probe.entryId).modelId]
  /\ UNCHANGED rest

SpecParse == ParseInit /\ [][Parse]_vars

(***************************************************************************)
(* Properties                                                              *)
(***************************************************************************)

ErrorEvent(t) == Some(Msg("assistant", "error", Some(t)))

\* key k is in its cooldown window at time t
InCooldown(reg, k, t) ==
  k \in DOMAIN reg /\ t - reg[k].exhaustedAt < reg[k].cooldownMs

Engaged == config # None /\ activeGroup # None

FailoverWorthy(m) ==
  /\ m # None
  /\ The(m).role = "assistant"
  /\ The(m).stopReason = "error" \/ The(m).errorMessage # None
  /\ shouldTriggerFailover(The(m).errorMessage, providerOf(ctxModel))

\* C1 (Scenario A): with group ["p1", "p2"], no stored credentials and a p1
\* model active, a turn_end with "429 rate limit exceeded" marks p1's
\* credential exhausted, switches no credential, and makes endpoint rotation
\* examine a p2 model (not p1 again) as the candidate to switch to.
ScenarioA ==
  /\ config = startupConfig(Some(CfgA), NoAuth)
  /\ activeGroup = Some("ga")
  /\ ctxModel = Some(M1)
  /\ storedCredentials(config, P1) = None
  /\ ~isRetrying
  /\ exhausted = EmptyMap

C1_ScenarioA ==
  [][ (ScenarioA /\ TurnEndAlone(ErrorEvent(T429)))
      => /\ CredKey(P1, PRIMARY) \in DOMAIN exhausted'
         /\ activeCredential' = activeCredential
         /\ slots'[1].pc = "getApiKey"
         /\ The(slots'[1].selected).provider = P2 ]_vars

\* C2 (Scenario B): p1 stores {primary, backup-1}, primary is active and
\* backup-1 is not in cooldown; a turn_end with "insufficient quota" marks
\* "p1:primary" exhausted at the current time, makes backup-1 the active
\* credential of p1, marks no "provider/model" key, requests no model switch
\* and leaves the active model unchanged.
ScenarioB ==
  /\ Engaged
  /\ ~isRetrying
  /\ ctxModel # None
  /\ The(ctxModel).provider = P1
  /\ storedCredentials(config, P1) # None
  /\ NamesOf(The(storedCredentials(config, P1))) = <<PRIMARY, BACKUP1>>
  /\ activeOrPrimary(activeCredential, P1) = PRIMARY
  /\ ~InCooldown(exhausted, CredKey(P1, BACKUP1), now)

C2_ScenarioB ==
  [][ (ScenarioB /\ TurnEndAlone(ErrorEvent(TInsufficient)))
      => /\ CredKey(P1, PRIMARY) \in DOMAIN exhausted'
         /\ exhausted'[CredKey(P1, PRIMARY)].exhaustedAt = now
         /\ P1 \in DOMAIN activeCredential'
         /\ activeCredential'[P1] = BACKUP1
         /\ \A k \in DOMAIN exhausted' :
              Contains(k, <<"/">>) => k \in DOMAIN exhausted /\ exhausted'[k] = exhausted[k]
         /\ \A h \in Handlers : slots'[h].pc \notin {"getApiKey", "setModel", "delayEndpoint"}
         /\ ctxModel' = ctxModel ]_vars

C2_Witness ==
  /\ slots[1].pc = "delayCred"
  /\ slots[1].notes = <<Note("credSwitch", "Quota")>>
  /\ The(slots[1].currentModel).provider = P1
  /\ NamesOf(The(storedCredentials(config, P1))) = <<PRIMARY, BACKUP1>>
  /\ P1 \in DOMAIN activeCredential
  /\ activeCredential[P1] = BACKUP1
  /\ DOMAIN exhausted = {CredKey(P1, PRIMARY)}

\* C3 (Scenario C): a failover-worthy turn_end that finds no alternate
\* credential for the current provider and every entry of the active group in
\* cooldown (the current endpoint's entry included once the handler has marked
\* it) returns with exactly one "no failover available" notification, no model
\* switch request, no retry dispatch, and isRetrying still false.
NoAlternateCredential ==
  \/ ctxModel = None
  \/ LET p == The(ctxModel).provider
         stored == storedCredentials(config, p)
     IN \/ stored = None
        \/ Len(The(stored)) <= 1
        \/ \A i \in 1..Len(The(stored)) :
             \/ The(stored)[i].name = activeOrPrimary(activeCredential, p)
             \/ InCooldown(exhausted, CredKey(p, The(stored)[i].name), now)

ScenarioC ==
  /\ Engaged
  /\ ~isRetrying
  /\ NoAlternateCredential
  /\ activeEntries(config, activeGroup) # None
  /\ globalDefaultCooldown(The(config)) > 0
  /\ \A i \in 1..Len(The(activeEntries(config, activeGroup))) :
       LET id == The(activeEntries(config, activeGroup))[i].id
       IN \/ InCooldown(exhausted, id, now)
          \/ ctxModel # None /\ id = EndpointKey(The(ctxModel))

C3_ScenarioC ==
  [][ \A m \in TurnEndMessages :
        (ScenarioC /\ FailoverWorthy(m) /\ TurnEndAlone(m))
        => /\ last'.outcome = "noFailover"
           /\ last'.notes = <<Note("noFailover", "none")>>
           /\ \A h \in Handlers : slots'[h].pc = "idle"
           /\ isRetrying' = FALSE
           /\ UNCHANGED <<lastRetryMessage, lastUser, timers, ctxModel, activeCredential>> ]_vars

C3_Witness ==
  /\ last.outcome = "noFailover"
  /\ last.message # None
  /\ last.notes = <<Note("noFailover", "none")>>
  /\ Engaged
  /\ Len(The(activeEntries(config, activeGroup))) >= 1
  /\ \A i \in 1..Len(The(activeEntries(config, activeGroup))) :
       InCooldown(exhausted, The(activeEntries(config, activeGroup))[i].id, now)
  /\ ~isRetrying

\* C4 (loop prevention): a step that commits a retry dispatch (sets the
\* retry flag and enters the pre-dispatch delay) is taken only when
\* isRetrying was false and lastRetryMessage differed from the fingerprint
\* of the user content being resent, on either rotation path.
C4_LoopPrevention ==
  [][ \A h \in Handlers :
        (slots[h].pc \notin {"delayCred", "delayEndpoint"}
           /\ slots'[h].pc \in {"delayCred", "delayEndpoint"})
        => /\ ~isRetrying
           /\ lastRetryMessage # Some(messageContentOf(The(slots'[h].content))) ]_vars

\* C5 (Scenario E): a turn_end delivered while isRetrying is still true
\* returns at the guard: no exhaustion mark, no credential or model rotation,
\* no dispatch, no timer, no notification.
C5_ScenarioE ==
  [][ \A m \in TurnEndMessages :
        (Engaged /\ isRetrying /\ TurnEndAlone(m))
        => /\ UNCHANGED <<config, authJson, engine, ctxModel, lastUser, timers, slots>>
           /\ last'.outcome = "retrying"
           /\ last'.notes = <<>> ]_vars

C5_Witness ==
  /\ last.outcome = "retrying"
  /\ FailoverWorthy(last.message)
  /\ isRetrying
  /\ timers = 1
  /\ lastUser # None
  /\ lastRetryMessage = Some(messageContentOf(The(lastUser)))
  /\ episodes = 1

\* C6 (one episode in flight): no two handler invocations that have passed
\* the isRetrying guard are performing rotation at the same time.
C6_OneEpisodeInFlight ==
  Cardinality({h \in Handlers : slots[h].pc \in {"getApiKey", "setModel"}}) <= 1

\* C7 (lock release): whenever isRetrying is true and no invocation is still
\* waiting in its pre-dispatch delay, a release timer is pending.
C7_LockReleased ==
  (isRetrying /\ \A h \in Handlers : slots[h].pc \notin {"delayCred", "delayEndpoint"})
  => timers > 0

\* C8 (no escaping exception): no invocation of the turn_end handler ends
\* by throwing.
C8_NoEscape == last.outcome # "threw"

\* C9 (two outcomes): with a user message in the branch, an invocation that
\* got past the classification gate and did not throw ends with a retry
\* dispatched or with the "no failover available" notification.
C9_TwoOutcomes ==
  (lastUser # None
     /\ last.outcome \in {"retried", "noFailover", "switchDeclined", "duplicate",
                          "switchedNoUserMessage", "retryThrew"})
  => last.outcome \in {"retried", "noFailover"}

\* C10 (Scenario D): for a provider of the Gemini family, a turn_end whose
\* error is the intermediate "No capacity available" text (no quota pattern,
\* not the final retry-failed text) changes nothing: registry, active
\* credentials, active model, isRetrying, lastRetryMessage, and no dispatch.
GeminiFamily(provider) ==
  Contains(provider, <<"google">>) \/ Contains(provider, <<"gemini">>)

IntermediateCapacityText(t) ==
  /\ Contains(ToLowerCase(t), <<"no", SP, "capacity", SP, "available">>)
  /\ ~QUOTA_ERROR_PATTERNS(ToLowerCase(t))
  /\ ~GEMINI_FINAL_RETRY_PATTERN(ToLowerCase(t))

C10_ScenarioD ==
  [][ \A t \in ErrorTexts :
        (Engaged /\ ctxModel # None /\ GeminiFamily(The(ctxModel).provider)
           /\ IntermediateCapacityText(t) /\ TurnEndAlone(ErrorEvent(t)))
        => /\ UNCHANGED <<engine, ctxModel, authJson, lastUser, timers, slots>>
           /\ last'.notes = <<>> ]_vars

C10_Witness ==
  /\ last.outcome = "notWorthy"
  /\ last.message = ErrorEvent(TNoCapacity)
  /\ ctxModel = Some(G1)
  /\ Engaged
  /\ ~isRetrying

Classified == probe.kind = "classify" /\ probe.done /\ probe.errorMessage # None

InFamily(provider) == provider # None /\ GeminiFamily(The(provider))

NoCapacityAvailable == <<"no", SP, "capacity", SP, "available">>

\* C11 (family asymmetry, as stated): for a provider of the internal-retry
\* family every text containing "no capacity available" classifies as
\* no-failure and every text containing "retry failed after N attempts"
\* classifies as Capacity; outside the family "no capacity available"
\* classifies as Capacity.
C11_FamilyAsymmetry ==
  Classified =>
    LET t == ToLowerCase(The(probe.errorMessage)) IN
    /\ (InFamily(probe.provider) /\ Contains(t, NoCapacityAvailable))
         => probe.category = "None"
    /\ (InFamily(probe.provider)
          /\ \E n \in AttemptCounts : Contains(t, ToLowerCase(RetryFailedAfter(n))))
         => probe.category = "Capacity"
    /\ (~InFamily(probe.provider) /\ Contains(t, NoCapacityAvailable))
         => probe.category = "Capacity"

\* C11 (family asymmetry, amended): the no-failure case holds for the texts
\* containing "no capacity available" that match no quota pattern and do not
\* contain "retry failed after N attempts"; the two Capacity cases hold as
\* stated.
C11_FamilyAsymmetryAmended ==
  Classified =>
    LET t == ToLowerCase(The(probe.errorMessage)) IN
    /\ (InFamily(probe.provider) /\ Contains(t, NoCapacityAvailable)
          /\ ~QUOTA_ERROR_PATTERNS(t)
          /\ ~\E n \in AttemptCounts : Contains(t, ToLowerCase(RetryFailedAfter(n))))
         => probe.category = "None" /\ ~probe.worthy
    /\ (InFamily(probe.provider)
          /\ \E n \in AttemptCounts : Contains(t, ToLowerCase(RetryFailedAfter(n))))
         => probe.category = "Capacity" /\ probe.worthy
    /\ (~InFamily(probe.provider) /\ Contains(t, NoCapacityAvailable))
         => probe.category = "Capacity" /\ probe.worthy

C11_Witness ==
  /\ Classified
  /\ probe.provider = Some(GEM)
  /\ probe.errorMessage = Some(RetryFailedAfter(<<"4", "2", "9">>))
  /\ probe.category = "Capacity"

\* C12 (quota for every provider): every text that matches a quota pattern
\* triggers failover and is classified Quota, whatever the provider and
\* whatever else the text contains.
C12_QuotaForEveryProvider ==
  (Classified /\ QUOTA_ERROR_PATTERNS(ToLowerCase(The(probe.errorMessage))))
  => probe.worthy /\ probe.category = "Quota"

\* C13 (tie-break): when the turn_end handler takes up an error text that
\* matches a quota pattern and a capacity pattern, the category it keeps for
\* the episode and puts in its notifications is Quota.
C13_TieBreak ==
  [][ \A t \in ErrorTexts :
        (QUOTA_ERROR_PATTERNS(ToLowerCase(t)) /\ CAPACITY_ERROR_PATTERNS(ToLowerCase(t))
           /\ TurnEndAlone(ErrorEvent(t)))
        => /\ slots'[1].errorType \in {"Quota", "none"}
           /\ \A i \in DOMAIN slots'[1].notes : slots'[1].notes[i][2] \in {"Quota", "none"}
           /\ \A i \in DOMAIN last'.notes : last'.notes[i][2] \in {"Quota", "none"} ]_vars

\* C14 (unclassified errors, as stated): a turn_end whose error text is
\* absent, empty, or matches no quota pattern and no capacity pattern changes
\* no engine state and makes no host call (no notification, no credential
\* lookup, no model switch, no dispatch, no timer).
Unclassified(errorMessage) ==
  \/ errorMessage = None
  \/ The(errorMessage) = <<>>
  \/ /\ ~QUOTA_ERROR_PATTERNS(ToLowerCase(The(errorMessage)))
     /\ ~CAPACITY_ERROR_PATTERNS(ToLowerCase(The(errorMessage)))

NothingDone ==
  /\ UNCHANGED <<config, authJson, engine, ctxModel, lastUser, timers, slots>>
  /\ last'.notes = <<>>
  /\ last'.outcome \in {"noGroup", "retrying", "noMessage", "noError", "notWorthy"}

C14_Unclassified ==
  [][ \A m \in TurnEndMessages :
        (m # None /\ Unclassified(The(m).errorMessage) /\ TurnEndAlone(m))
        => NothingDone ]_vars

\* C14 (amended): the same, for texts that in addition are not the
\* "retry failed after N attempts" text on a provider of the internal-retry
\* family.
C14_UnclassifiedAmended ==
  [][ \A m \in TurnEndMessages :
        (m # None /\ Unclassified(The(m).errorMessage)
           /\ ~(InFamily(providerOf(ctxModel)) /\ The(m).errorMessage # None
                  /\ GEMINI_FINAL_RETRY_PATTERN(ToLowerCase(The(The(m).errorMessage))))
           /\ TurnEndAlone(m))
        => NothingDone ]_vars

C14_Witness ==
  /\ last.outcome = "notWorthy"
  /\ last.message = ErrorEvent(TOther)
  /\ ctxModel = Some(G1)
  /\ Engaged
  /\ ~isRetrying
  /\ exhausted = EmptyMap

\* C14, classifier part on its own: absent, empty and pattern-free texts are
\* no-failure for every provider, the final-retry text of the internal-retry
\* family excepted.
C14_ClassifierPart ==
  (probe.kind = "classify" /\ probe.done /\ Unclassified(probe.errorMessage)
     /\ ~(InFamily(probe.provider) /\ probe.errorMessage # None
            /\ GEMINI_FINAL_RETRY_PATTERN(ToLowerCase(The(probe.errorMessage)))))
  => ~probe.worthy /\ probe.category = "None"

InRegistryRun == probe.kind = "registry"

\* C15 (cooldown window): for a key whose most recent mark used a cooldown
\* c > 0 at time t, isExhausted answers true exactly while now - t < c: true
\* at the clock value of the mark, false from now - t >= c on; the answer a
\* query returned agrees.
C15_CooldownWindow ==
  InRegistryRun =>
    /\ \A k \in RegistryKeys :
         (probe.marks[k] # None /\ The(probe.marks[k]).c > 0)
         => (isExhausted(exhausted, k, now).result
               <=> now - The(probe.marks[k]).at < The(probe.marks[k]).c)
    /\ (probe.op = "query" /\ probe.marks[probe.key] # None
          /\ The(probe.marks[probe.key]).c > 0)
         => (probe.result
               <=> now - The(probe.marks[probe.key]).at < The(probe.marks[probe.key]).c)
    /\ (probe.op = "mark" /\ The(probe.marks[probe.key]).c > 0)
         => isExhausted(exhausted, probe.key, now).result

C15_Witness ==
  /\ InRegistryRun
  /\ probe.op = "query"
  /\ probe.marks[probe.key] # None
  /\ The(probe.marks[probe.key]).c = 2
  /\ now - The(probe.marks[probe.key]).at = 2
  /\ ~probe.result
  /\ probe.key \notin DOMAIN exhausted

\* C16 (registry invariant): a key never marked since the last clear, and a
\* key whose most recent mark used a cooldown of zero or less, is not
\* exhausted.
C16_NeverExhausted ==
  InRegistryRun =>
    /\ \A k \in RegistryKeys :
         (probe.marks[k] = None \/ The(probe.marks[k]).c <= 0)
         => ~isExhausted(exhausted, k, now).result
    /\ (probe.op = "query"
          /\ (probe.marks[probe.key] = None \/ The(probe.marks[probe.key]).c <= 0))
         => ~probe.result

C16_Witness ==
  /\ InRegistryRun
  /\ probe.op = "query"
  /\ probe.marks[probe.key] # None
  /\ The(probe.marks[probe.key]).c = 0
  /\ The(probe.marks[probe.key]).at = now
  /\ ~probe.result
  /\ \E k \in RegistryKeys : probe.marks[k] = None

\* C17 (re-marking resets): markExhausted(k, c2) at time t2 leaves exactly one
\* entry for k, with exhaustedAt = t2 and cooldownMs = c2, whatever entry was
\* there before; k is then exhausted at a clock value t >= t2 exactly when
\* t - t2 < c2, and no other key is touched.
C17_RemarkResets ==
  [][ \A k \in RegistryKeys : \A c \in CooldownValues :
        RegistryMark(k, c)
        => /\ DOMAIN exhausted' = DOMAIN exhausted \cup {k}
           /\ exhausted'[k] = [id |-> k, exhaustedAt |-> now, cooldownMs |-> c]
           /\ \A j \in DOMAIN exhausted \ {k} : exhausted'[j] = exhausted[j]
           /\ \A t \in now..(MaxClock + 2) :
                isExhausted(exhausted', k, t).result <=> t - now < c ]_vars

C17_Witness ==
  /\ InRegistryRun
  /\ probe.op = "mark"
  /\ probe.prev # None
  /\ The(probe.prev).exhaustedAt < now
  /\ The(probe.prev).cooldownMs = 2
  /\ The(probe.marks[probe.key]).c = 1
  /\ exhausted[probe.key].exhaustedAt = now
  /\ exhausted[probe.key].cooldownMs = 1

\* keys the engine can mark: credential keys and endpoint keys
AllKeys ==
  {CredKey(p, n) : p \in {P1, P2, GEM}, n \in {PRIMARY, BACKUP1, BACKUP2}}
    \cup {EndpointKey(AvailableModels[i]) : i \in DOMAIN AvailableModels}

\* C18 (/ha-use clears): /ha-use G with G a group of the configuration sets
\* activeGroup to G and empties the registry, so right afterwards no
\* credential key and no endpoint key is exhausted.
C18_HaUseClears ==
  [][ \A g \in GroupNames :
        (config # None /\ g # "" /\ g \in DOMAIN The(config).groups /\ HaUse(g))
        => /\ activeGroup' = Some(g)
           /\ exhausted' = EmptyMap
           /\ \A k \in AllKeys : ~isExhausted(exhausted', k, now').result ]_vars

C18_Witness ==
  /\ activeGroup = Some("gs")
  /\ config = startupConfig(Some(CfgA), NoAuth)
  /\ episodes >= 1
  /\ exhausted = EmptyMap
  /\ Idle

\* C19 (per-entry cooldown): the cooldown recorded when a failover-worthy
\* error marks the current credential and endpoint is the cooldownMs of the
\* active group's entry for the current endpoint when that entry has one,
\* else the configured default (one hour when none is configured).
entryCooldown(m) ==
  LET group == activeEntries(config, activeGroup)
      own == IF group = None THEN {}
             ELSE {The(group)[i].cooldownMs : i \in {j \in DOMAIN The(group) :
                      The(group)[j].id = EndpointKey(m) /\ The(group)[j].cooldownMs # None}}
  IN IF own = {} THEN globalDefaultCooldown(The(config)) ELSE The(The(own))

C19_PerEntryCooldown ==
  [][ \A m \in TurnEndMessages :
        (Engaged /\ ~isRetrying /\ ctxModel # None /\ FailoverWorthy(m) /\ TurnEndAlone(m))
        => LET cur == The(ctxModel)
               ck == CredKey(cur.provider, activeOrPrimary(activeCredential, cur.provider))
               ek == EndpointKey(cur)
           IN /\ ck \in DOMAIN exhausted' => exhausted'[ck].cooldownMs = entryCooldown(cur)
              /\ ek \in DOMAIN exhausted' => exhausted'[ek].cooldownMs = entryCooldown(cur) ]_vars

\* C20 (no exhausted account reused): when a retry has just been dispatched,
\* the credential key of the provider and active credential the retried
\* request runs on is not in its cooldown window.
C20_NoExhaustedAccount ==
  (last.outcome = "retried" /\ ctxModel # None)
  => ~InCooldown(exhausted,
                 CredKey(The(ctxModel).provider,
                         activeOrPrimary(activeCredential, The(ctxModel).provider)),
                 now)

\* the (provider, model, credential) combination a request on model m runs on
Combination(m, active) ==
  <<The(m).provider, The(m).id, activeOrPrimary(active, The(m).provider)>>

\* C21 (each combination once per user message): the resend dispatched after
\* an endpoint rotation runs on a (provider, model, credential) combination
\* other than the one the failed attempt ran on (the credential map does not
\* change between the failure and the dispatch on this path).
C21_NoCombinationTwice ==
  [][ \A h \in Handlers :
        (slots[h].pc = "delayEndpoint" /\ last'.outcome = "retried"
           /\ slots[h].currentModel # None /\ ctxModel' # None)
        => Combination(ctxModel', activeCredential')
             # Combination(slots[h].currentModel, activeCredential) ]_vars

\* C22 (one rotation pass): while findNextAvailableProvider is suspended or
\* has returned a candidate, the entry it is at is one of the N entries of the
\* group (so a group with no entries never suspends it); each key lookup that
\* returns nothing moves it to a strictly later entry or ends the pass (the
\* loop resumed from where it is suspended never comes back to the same
\* entry), so no entry is examined twice and at most N are examined; and the
\* candidate it returns is the single entry it was suspended on.
C22_OnePass ==
  [][ /\ slots'[1].pc \in {"getApiKey", "setModel"}
           => slots'[1].idx \in 1..Len(slots'[1].entries)
      /\ (slots[1].pc = "getApiKey" /\ slots'[1].pc = "getApiKey")
           => /\ slots'[1].idx > slots[1].idx
              /\ slots'[1].entries = slots[1].entries
      /\ (slots[1].pc = "getApiKey" /\ slots'[1].pc = "setModel")
           => /\ slots'[1].idx = slots[1].idx
              /\ slots'[1].selected = slots[1].selected
      /\ slots[1].pc = "getApiKey"
           => /\ slots'[1].pc \in {"getApiKey", "setModel", "idle"}
              /\ LET scan == scanEntries(slots[1].entries, resumeIndex(slots[1]),
                                         exhausted, now)
                 IN scan.kind = "await"
                      => scan.idx \in (slots[1].idx + 1)..Len(slots[1].entries) ]_vars

\* the pass reached the third entry of a group whose first and third entries
\* have the same id: the first was examined, its key lookup returned nothing
C22_Witness ==
  /\ slots[1].pc = "getApiKey"
  /\ slots[1].idx = 3
  /\ slots[1].entries[1].id = slots[1].entries[3].id
  /\ ~InCooldown(exhausted, slots[1].entries[1].id, now)

\* the credentials stored for provider p in configuration cfg, none as <<>>
StoredOr(cfg, p) ==
  IF storedCredentials(cfg, p) = None THEN <<>> ELSE The(storedCredentials(cfg, p))

\* the name a new credential is expected under
ExpectedName(entries) ==
  IF ~HasName(entries, PRIMARY) THEN PRIMARY
  ELSE LET free(n) == ~HasName(entries, CASE n = 1 -> BACKUP1 [] n = 2 -> BACKUP2
                                             [] OTHER -> BackupName(n))
           n == CHOOSE k \in 1..(Len(entries) + 1) : free(k) /\ \A m \in 1..(k - 1) : ~free(m)
       IN CASE n = 1 -> BACKUP1 [] n = 2 -> BACKUP2 [] OTHER -> BackupName(n)

\* C23 (sync preserves existing entries): a /ha-sync leaves every credential
\* stored for a provider under its name, in its place and with its value; a
\* credential of auth.json that matches none of the provider's stored
\* credentials is added as one new entry under a name no stored entry has:
\* "primary" when there is no "primary", otherwise "backup-N" for the lowest
\* N >= 1 that is unused.
C23_SyncPreserves ==
  [][ (config # None /\ last'.outcome = "synced")
      => \A p \in {P1, P2} :
           LET old == StoredOr(config, p)
               new == StoredOr(config', p)
           IN /\ Len(new) >= Len(old)
              /\ \A i \in DOMAIN old : new[i] = old[i]
              /\ UniqueNames(new)
              /\ (p \in DOMAIN authJson
                    /\ \A i \in DOMAIN old : ~credentialsMatch(authJson[p], old[i].cred))
                   => /\ Len(new) = Len(old) + 1
                      /\ new[Len(new)].cred = authJson[p]
                      /\ ~HasName(old, new[Len(new)].name)
                      /\ new[Len(new)].name = ExpectedName(old) ]_vars

\* a sync added the credential of auth.json as "backup-1" to a store that
\* held "primary" and "backup-2"
C23_Witness ==
  /\ last.outcome = "synced"
  /\ LET st == StoredOr(config, P1)
     IN /\ Len(st) = 3
        /\ st[1].name = PRIMARY /\ st[2].name = BACKUP2 /\ st[3].name = BACKUP1
        /\ P1 \in DOMAIN authJson /\ st[3].cred = authJson[P1]

\* an entry the rotation may return: its id key is not cooling down and a
\* model resolves for it
Eligible(reg, id, t) == ~InCooldown(reg, id, t) /\ selectModel(id) # None

\* position of the entry matching the current endpoint, by exact id or else
\* by provider; 0 when no entry matches
CurrentIndexOf(entries, m) ==
  IF m = None THEN 0
  ELSE IF \E i \in DOMAIN entries : entries[i].id = EndpointKey(The(m))
  THEN CHOOSE i \in DOMAIN entries :
         /\ entries[i].id = EndpointKey(The(m))
         /\ \A j \in 1..(i - 1) : entries[j].id # EndpointKey(The(m))
  ELSE IF \E i \in DOMAIN entries : parseEntryId(entries[i].id).provider = The(m).provider
  THEN CHOOSE i \in DOMAIN entries :
         /\ parseEntryId(entries[i].id).provider = The(m).provider
         /\ \A j \in 1..(i - 1) : parseEntryId(entries[j].id).provider # The(m).provider
  ELSE 0

\* the entries in circular order beginning after position c
CircularFrom(entries, c) ==
  [k \in 1..Len(entries) |-> ((c + k - 1) % Len(entries)) + 1]

\* C24 (rotation starts after the current endpoint): the first candidate of a
\* rotation pass is the first eligible entry in circular order beginning at
\* the entry after the one matching the current endpoint (at entry 0 when
\* none matches).
C24_StartsAfterCurrent ==
  [][ (slots[1].pc = "idle" /\ slots'[1].pc = "getApiKey")
      => LET es == slots'[1].entries
             order == CircularFrom(es, CurrentIndexOf(es, slots'[1].currentModel))
         IN \E k \in DOMAIN order :
              /\ order[k] = slots'[1].idx
              /\ \A m \in 1..(k - 1) : ~Eligible(exhausted', es[order[m]].id, now') ]_vars

\* C25 (no exhausted entry returned): the entry a rotation pass is suspended
\* on, and the entry it returns, has an id key that is not in its cooldown
\* window, whatever the group and the registry hold.
C25_NeverReturnsExhausted ==
  slots[1].pc \in {"getApiKey", "setModel"}
    => ~InCooldown(exhausted, slots[1].entries[slots[1].idx].id, now)

\* the pass returned an entry after skipping an earlier entry that resolves
\* to a model but is cooling down
C25_Witness ==
  /\ slots[1].pc = "setModel"
  /\ \E j \in 1..(slots[1].idx - 1) :
       /\ InCooldown(exhausted, slots[1].entries[j].id, now)
       /\ selectModel(slots[1].entries[j].id) # None
       /\ slots[1].entries[j].id # EndpointKey(The(slots[1].currentModel))

\* the models the availability lookup lists for a provider, in its order
ListedFor(provider) ==
  SelectSeq(AvailableModels, LAMBDA m : m.provider = provider)

\* the provider and the model id an entry id names: "provider/model" names
\* both, any other id names a provider only
NamedBy(id) ==
  IF \E i \in 1..Len(id) :
       /\ id[i] = "/"
       /\ \A j \in 1..Len(id) : id[j] = "/" => j = i
  THEN LET i == CHOOSE i \in 1..Len(id) : id[i] = "/"
       IN [provider |-> SubSeq(id, 1, i - 1), modelId |-> Some(SubSeq(id, i + 1, Len(id)))]
  ELSE [provider |-> id, modelId |-> None]

\* C26 (model resolution): the model of the candidate a rotation pass is
\* suspended on or returns belongs to the entry's provider; it has the
\* entry's model id when the entry names one, and is otherwise the first
\* model listed for the provider; every earlier entry the pass went by without
\* a key lookup is cooling down or has no such model; and a pass returns a
\* candidate only in a step in which the key lookup for that very model
\* returned a key.
C26_ModelResolution ==
  [][ /\ slots'[1].pc \in {"getApiKey", "setModel"}
        => LET e == slots'[1].entries[slots'[1].idx]
               named == NamedBy(e.id)
               model == The(slots'[1].selected)
           IN /\ slots'[1].selected # None
              /\ model.provider = named.provider
              /\ \E i \in DOMAIN ListedFor(named.provider) : ListedFor(named.provider)[i] = model
              /\ named.modelId # None => model.id = The(named.modelId)
              /\ named.modelId = None => model = ListedFor(named.provider)[1]
      /\ (slots[1].pc = "idle" /\ slots'[1].pc = "getApiKey")
        => \A j \in 1..(slots'[1].idx - 1) :
             LET named == NamedBy(slots'[1].entries[j].id)
             IN \/ InCooldown(exhausted', slots'[1].entries[j].id, now')
                \/ ListedFor(named.provider) = <<>>
                \/ /\ named.modelId # None
                   /\ \A i \in DOMAIN ListedFor(named.provider) :
                        ListedFor(named.provider)[i].id # The(named.modelId)
      /\ slots'[1].pc = "setModel"
        => /\ GetApiKeyReturn(1, "key")
           /\ slots'[1].selected = slots[1].selected
           /\ slots'[1].idx = slots[1].idx
      /\ GetApiKeyReturn(1, "null") => slots'[1].pc # "setModel" ]_vars

\* the pass returned the second model of provider p1 for the entry "p1/m1b",
\* after going by an entry whose model is not listed
C26_Witness ==
  /\ slots[1].pc = "setModel"
  /\ slots[1].entries[slots[1].idx].id = EndpointKey(M1b)
  /\ slots[1].selected = Some(M1b)
  /\ \E j \in 1..(slots[1].idx - 1) : slots[1].entries[j].id = MissingModel

\* C27 (a declined switch is not fatal): when pi.setModel resolves false for
\* the candidate, the handler does not end the episode while an eligible
\* entry remains after the candidate in the group.
C27_DeclineNotFatal ==
  [][ \A h \in Handlers :
        (slots[h].pc = "setModel" /\ last'.outcome = "switchDeclined"
           /\ slots'[h].pc = "idle")
        => ~\E j \in (slots[h].idx + 1)..Len(slots[h].entries) :
              Eligible(exhausted, slots[h].entries[j].id, now) ]_vars

\* C28 (primary recorded for the new provider): once the host has confirmed
\* the switch to a model of another provider P and the retry is about to be
\* dispatched, state.activeCredential holds "primary" for P.
C28_PrimaryRecorded ==
  \A h \in Handlers :
    (slots[h].pc = "delayEndpoint" /\ ctxModel # None /\ slots[h].currentModel # None
       /\ The(ctxModel).provider # The(slots[h].currentModel).provider)
    => /\ The(ctxModel).provider \in DOMAIN activeCredential
       /\ activeCredential[The(ctxModel).provider] = PRIMARY

\* the notification "<type> error detected. Switching to <entry>..." is
\* among the notes
SwitchNotified(notes) == \E i \in DOMAIN notes : notes[i][1] = "switching"

\* C29 (notification after confirmation): while the host has not yet answered
\* the model switch no switch notification has been emitted, and a handler
\* that ends because the host declined the switch has emitted none and
\* dispatched no retry.
C29_NotifyAfterConfirm ==
  /\ \A h \in Handlers : slots[h].pc = "setModel" => ~SwitchNotified(slots[h].notes)
  /\ last.outcome = "switchDeclined" => ~SwitchNotified(last.notes)

\* C30 (credential rotation order): for a provider with two or more stored
\* credentials, getNextCredential returns the first name, in the store's
\* order taken circularly from the name after the active one ("primary" when
\* none is recorded; from the first name when the active one is not stored),
\* that differs from the active name and whose key "provider:name" is not
\* cooling down, and nothing when there is no such name; for fewer than two
\* stored credentials it returns nothing.
C30_CredentialOrder ==
  (probe.kind = "nextCredential" /\ probe.done)
  => LET names == NamesOf(StoredOr(config, P1))
         active == IF P1 \in DOMAIN activeCredential THEN activeCredential[P1] ELSE PRIMARY
         c == IF \E i \in DOMAIN names : names[i] = active
              THEN CHOOSE i \in DOMAIN names : names[i] = active ELSE 0
         order == CircularFrom(names, c)
         good(k) == /\ names[order[k]] # active
                    /\ ~InCooldown(probe.before, CredKey(P1, names[order[k]]), now)
     IN IF Len(names) >= 2 /\ \E k \in DOMAIN order : good(k)
        THEN \E k \in DOMAIN order :
               /\ good(k)
               /\ \A m \in 1..(k - 1) : ~good(m)
               /\ probe.result = Some(names[order[k]])
        ELSE probe.result = None

\* three stored credentials, the second active, the third cooling down: the
\* scan wrapped around and returned the first
C30_Witness ==
  /\ probe.kind = "nextCredential" /\ probe.done
  /\ LET st == StoredOr(config, P1)
     IN /\ Len(st) = 3
        /\ activeCredential = [p \in {P1} |-> st[2].name]
        /\ InCooldown(probe.before, CredKey(P1, st[3].name), now)
        /\ probe.result = Some(st[1].name)

\* C31 (credential rotation yields nothing exactly in the degenerate cases):
\* getNextCredential returns no name exactly when the provider has no stored
\* credentials, or exactly one (whether or not it is the active name), or
\* every stored name other than the active one has its key cooling down; a
\* name it returns is a stored name.
C31_NothingExactly ==
  (probe.kind = "nextCredential" /\ probe.done)
  => LET names == NamesOf(StoredOr(config, P1))
         active == IF P1 \in DOMAIN activeCredential THEN activeCredential[P1] ELSE PRIMARY
         degenerate ==
           \/ storedCredentials(config, P1) = None
           \/ Len(names) = 0
           \/ Len(names) = 1
           \/ \A i \in DOMAIN names :
                names[i] # active => InCooldown(probe.before, CredKey(P1, names[i]), now)
     IN /\ probe.result = None <=> degenerate
        /\ probe.result # None => \E i \in DOMAIN names : names[i] = The(probe.result)

\* one credential is stored, it is not the active name and it is not cooling
\* down: nothing is returned
C31_Witness ==
  /\ probe.kind = "nextCredential" /\ probe.done
  /\ LET st == StoredOr(config, P1)
     IN /\ Len(st) = 1
        /\ st[1].name = WORK
        /\ activeCredential = EmptyMap
        /\ CredKey(P1, WORK) \notin DOMAIN probe.before
        /\ probe.result = None

\* C32 (fingerprint reset): a turn_start processed while isRetrying is false
\* leaves lastRetryMessage cleared, one processed while isRetrying is true
\* leaves it as it is, and neither changes anything else; the endpoint path
\* refuses a resend as a duplicate only while the fingerprint of that content
\* stands, so content resent in one episode is resent again in a later one
\* once a turn_start came after the release of the lock.
C32_FingerprintReset ==
  [][ /\ TurnStart => /\ ~isRetrying => lastRetryMessage' = None
                      /\ isRetrying => lastRetryMessage' = lastRetryMessage
                      /\ UNCHANGED <<activeGroup, exhausted, isRetrying, activeCredential,
                                     config, authJson, ctxModel, lastUser, timers, slots>>
      /\ last'.outcome = "duplicate"
           => lastUser # None /\ lastRetryMessage = Some(messageContentOf(The(lastUser))) ]_vars

\* the second episode resends the content the first episode resent
C32_Witness ==
  /\ episodes = 2
  /\ slots[1].pc = "delayEndpoint"
  /\ lastUser # None
  /\ slots[1].content = lastUser
  /\ lastRetryMessage = Some(messageContentOf(The(lastUser)))

\* C33 (no active group, nothing happens): while no configuration is loaded
\* or no group is active, a turn_end event, whatever its message and error
\* text, leaves the registry, the active credential map, auth.json, the active
\* model, the retry flag, the fingerprint and the timers as they are, notifies
\* nothing and leaves no handler suspended before a switch or a resend.
C33_IgnoredWithoutGroup ==
  [][ \A m \in TurnEndMessages :
        ((config = None \/ activeGroup = None) /\ TurnEndAlone(m))
        => /\ UNCHANGED <<config, activeGroup, exhausted, activeCredential, authJson,
                          ctxModel, lastRetryMessage, isRetrying, timers, lastUser,
                          episodes>>
           /\ last'.notes = <<>>
           /\ \A h \in Handlers : slots'[h].pc = "idle" ]_vars

\* a quota error was delivered to an extension that has a configuration but
\* no active group, after /ha-switch had moved provider p1 to "backup-1"
C33_Witness ==
  /\ config # None
  /\ activeGroup = None
  /\ last.outcome = "noGroup"
  /\ last.message = ErrorEvent(T429)
  /\ activeCredential = [p \in {P1} |-> BACKUP1]

\* a handler has set isRetrying and has not armed its release timer yet
LockHeldBy(h) == slots[h].pc \in {"delayCred", "delayEndpoint"}

\* C34 (a release timer clears only its own lock): when a release timer fires
\* and sets isRetrying to false, no other release timer is pending and no
\* handler is between setting the flag and arming its timer, so the retry
\* that armed the firing timer is the latest one that set the flag.
C34_TimerClearsOwnLock ==
  [][ (timers > 0 /\ timers' = timers - 1 /\ isRetrying' = FALSE)
      => /\ timers = 1
         /\ \A h \in Handlers : ~LockHeldBy(h) ]_vars

\* model m is designated by an entry of the group that is active now
InActiveGroup(m) ==
  LET group == activeEntries(config, activeGroup)
  IN /\ group # None
     /\ \E i \in DOMAIN The(group) : The(group)[i].id \in {m.provider, EndpointKey(m)}

\* C35 (the switch follows the active group): when a handler that was
\* suspended inside endpoint rotation gets the host's confirmation of the
\* model switch and schedules the resend, the model it switched to is
\* designated by an entry of the group active at that moment; and a step of a
\* suspended handler adds no key to the registry.
C35_SwitchWithinActiveGroup ==
  [][ \A h \in Handlers :
        /\ (slots[h].pc = "setModel" /\ slots'[h].pc = "delayEndpoint")
             => InActiveGroup(The(slots[h].selected))
        /\ (slots[h].pc # "idle" /\ slots'[h] # slots[h])
             => DOMAIN exhausted' \subseteq DOMAIN exhausted ]_vars

\* C36 (active credential and auth.json agree): for every provider with a
\* recorded active credential, auth.json holds for that provider the blob
\* stored in the configuration under the recorded name, also after a switch
\* whose write of auth.json failed.
C36_StoreAgrees ==
  \A p \in DOMAIN activeCredential :
    /\ p \in DOMAIN authJson
    /\ storedCredentials(config, p) # None
    /\ credentialNamed(The(storedCredentials(config, p)), activeCredential[p])
         = Some(authJson[p])

\* C37 (sync is idempotent): a /ha-sync that directly follows a /ha-sync,
\* auth.json being the same for both, leaves the configuration as the first
\* one left it, whatever the type of the credentials in auth.json.
C37_SyncIdempotent ==
  [][ (config # None /\ last.outcome = "synced" /\ last'.outcome = "synced"
         /\ authJson' = authJson)
      => config' = config ]_vars

\* the configuration stores no credential under that name for that provider
NotStored(providerId, credentialName) ==
  \/ storedCredentials(config, providerId) = None
  \/ ~HasName(The(storedCredentials(config, providerId)), credentialName)

\* C38 (rejected commands change nothing): /ha-use with an empty name or a
\* name that is no group of the configuration leaves activeGroup and the
\* registry as they are; /ha-switch with fewer than two words, or naming a
\* provider or a credential the configuration does not store, reports a
\* failure and leaves auth.json and the active credential map as they are.
C38_RejectedCommands ==
  [][ /\ \A g \in GroupNames :
           (HaUse(g) /\ (g = "" \/ config = None \/ g \notin DOMAIN The(config).groups))
           => UNCHANGED <<activeGroup, exhausted>>
      /\ \A parts \in SwitchArgs : \A io \in IOs :
           ((Len(parts) < 2 \/ NotStored(parts[1], parts[2])) /\ HaSwitch(parts, io))
           => /\ UNCHANGED <<authJson, activeCredential>>
              /\ last'.outcome \in {"usage", "switchFailed"} ]_vars

\* /ha-switch was rejected after the engine had marked keys and switched a
\* credential: the credential map still holds that switch
C38_Witness ==
  /\ last.outcome = "switchFailed"
  /\ exhausted # EmptyMap
  /\ activeCredential = [p \in {P1} |-> BACKUP1]
  /\ activeGroup # None

\* position of the first "/" of an id, 0 when it has none
FirstSlash(id) ==
  IF \E i \in DOMAIN id : id[i] = "/"
  THEN CHOOSE i \in DOMAIN id : id[i] = "/" /\ \A j \in 1..(i - 1) : id[j] # "/"
  ELSE 0

\* C39 (entry id parsing): an id without "/" is parsed as (id, no model); an
\* id with one or more "/" is parsed as the text before the first "/" for the
\* provider and the rest for the model id, so that the key "provider/model"
\* of the model the entry designates is the entry id itself, the key the
\* rotation checks.
C39_EntryIdParsing ==
  (probe.kind = "parse" /\ probe.done)
  => LET id == probe.entryId
         i == FirstSlash(id)
     IN IF i = 0
        THEN probe.provider = id /\ probe.modelId = None
        ELSE /\ probe.provider = SubSeq(id, 1, i - 1)
             /\ probe.modelId = Some(SubSeq(id, i + 1, Len(id)))
             /\ EndpointKey(Model(probe.provider, The(probe.modelId))) = id

====
